---- MODULE Spec2Model ----
(***************************************************************************)
(* A model of the channel registry of the message broker                   *)
(* (src/unnamed/part_005, class MessageBroker).                            *)
(*                                                                         *)
(* The broker holds one rxjs Subject, messagePublisher, and a lookup from  *)
(* channel name to a channel model.  A channel model's observable is the   *)
(* Subject filtered by channel name, piped through shareReplay(N) when the *)
(* channel was created with a truthy replayCacheSize.  The rxjs operators  *)
(* are modelled by what they do to the lists of observers:                 *)
(*   Subject.next       delivers to the observers the Subject holds        *)
(*   filter             every subscribe adds one observer to the Subject   *)
(*   shareReplay(N)     one connection to the Subject (kept also when no   *)
(*                      subscriber is left: refCount is false), a buffer   *)
(*                      of the last N messages, replayed on subscribe      *)
(*   defer              the channel model is looked up when subscribing    *)
(*                                                                         *)
(* src/main/core/messagebroker.ts holds two earlier revisions of the       *)
(* class.  The first (lines 36-221) is the scope-tree broker: a broker     *)
(* creates named child brokers, publish and dispose go down to the         *)
(* children.  It is modelled by the variables scopes, scopeSubscribers,    *)
(* scopePublished and scopeRet and the specification SpecScope.            *)
(*                                                                         *)
(* Adapters bridge the broker to an outside transport.  In part_005        *)
(* registerAdapter and unregisterAdapter are async: each is modelled by    *)
(* the step up to its await and the step after it, with the calls that     *)
(* wait kept in adapterCalls (specification SpecAdapter).  In the adapter   *)
(* broker of src/main/core/messagebroker.ts (lines 266-506) they are       *)
(* synchronous and createChannelImpl merges the inbound streams of the      *)
(* adapters of the moment into the observable of the channel, which the    *)
(* variables adapterStreams, adapterObservables and merged record           *)
(* (specification SpecMerge).  An inbound message takes its id from the    *)
(* same count as a published one, so published lists both.                  *)
(*                                                                         *)
(* The promises of an adapter (connect, disconnect, sendMessage) settle in *)
(* steps of their own; a rejection is handed to the error stream, a        *)
(* Subject (specification SpecError).  The ResponseBroker of               *)
(* src/main/core/responseBroker.ts (lines 23-59) is a class of its own,    *)
(* modelled by responders, responderRefs and collated (specification       *)
(* SpecResponse).                                                          *)
(***************************************************************************)
EXTENDS Integers, Sequences, FiniteSets, TLC

\* ------------------------------------------------------------------ bounds
\* messages published, outside observers, channel models built, largest cache size
MaxMessages == 2
MaxSubscribers == 1
MaxChannelModels == 2
MaxCacheSize == 1
\* scope tree: broker instances, outside observers, publish calls
MaxScopes == 3
MaxScopeSubscribers == 2
MaxScopeMessages == 1
\* adapters handed to registerAdapter
MaxAdapters == 2
\* outside observers where several are needed
MaxObservers == 2
\* observers of the error stream
MaxErrorObservers == 2
\* records handed to the error stream
MaxErrors == 2
\* streams obtained from get and kept for later
MaxStreams == 2
\* responder references handed out by registerResponder
MaxResponders == 3
\* disconnect() calls on one responder reference
MaxDisconnects == 2

\* ------------------------------------------------------------------ values
\* the channel names in use: the operations modelled here act on one name each
\* and the message filter compares names, so one name carries every case of
\* create, get, publish and dispose on a channel
Channels == {"a"}

\* a replayCacheSize that is not given (undefined in the source)
Undefined == -1

\* the config argument left out: create(name)
NoConfig == [defined |-> FALSE, replayCacheSize |-> Undefined]

\* the config arguments create is called with: none, {}, {replayCacheSize: n}
Configs ==
    {NoConfig} \cup
    {[defined |-> TRUE, replayCacheSize |-> n] : n \in {Undefined} \cup (0..MaxCacheSize)}

\* the observer the broker itself keeps on a shareReplay observable
KeepAlive == 0

VARIABLES
    channelLookup,     \* channel name -> index into channelModels, 0 when absent
    channelModels,     \* every channel model createChannelImpl has built, in order
    messagePublisher,  \* the observers of the Subject, in subscription order
    subscribers,       \* the outside observers: what each subscribed to and received
    published,         \* the channel name of every message, by message id
    handles,           \* the handles create has returned to a caller
    retired,           \* the handles returned for a name before a dispose of that name
    ret,               \* the last call, when it was a create: arguments and result
    scopes,            \* scope tree: every broker instance, the root first
    scopeSubscribers,  \* scope tree: the outside observers
    scopePublished,    \* scope tree: every publish call made from outside, with the
                       \* parent the instance had then
    scopeRet,          \* scope tree: the last call, when it was a createScope
    adapters,          \* the ids in the adapter registry
    adapterSubscriptions, \* the ids whose inbound stream is forwarded to the Subject
    adapterCalls,      \* the registerAdapter and unregisterAdapter calls at their await
    adapterInfo,       \* every adapter handed to registerAdapter, by id: what happened to it
    sent,              \* the sendMessage invocations of the last publish call
    inbound,           \* the last message an adapter's inbound stream emitted
    adapterStreams,    \* messagebroker.ts: the ids with a cached raw inbound stream
    adapterObservables, \* messagebroker.ts: by channel name, the ids with a filtered stream
    merged,            \* messagebroker.ts: by channel model, the ids merged into its observable
    errorObservers,    \* the observers of the error stream: what each received
    errors,            \* every record handed to errorStream.next, in order
    sends,             \* the sendMessage promises that have not settled
    settled,           \* the last promise of an adapter that settled, and how
    invoked,           \* the observers the last publish call invoked, in order
    responders,        \* ResponseBroker: channel name -> the responder ids, in order
    responderRefs,     \* ResponseBroker: every responder reference handed out, by id
    collated,          \* ResponseBroker: the last collate call and what it did
    streams,           \* the streams get has returned: when, and who subscribed to them
    adapterObjects,    \* adapter id -> the id the same adapter object was first registered under
    scopeDisposed,     \* scope tree: the last dispose call and the keepalives it unsubscribed
    scopeMessages      \* scope tree: the messages the last publish call made, by instance

flatVars == <<channelLookup, channelModels, messagePublisher, subscribers, published,
              handles, retired, ret>>

scopeVars == <<scopes, scopeSubscribers, scopePublished, scopeRet>>

adapterVars == <<adapters, adapterSubscriptions, adapterCalls, adapterInfo, inbound>>

mergeVars == <<adapterStreams, adapterObservables, merged>>

errorVars == <<errorObservers, errors, sends, settled>>

responseVars == <<responders, responderRefs, collated>>

\* what the model records of the calls made from outside
callVars == <<streams, adapterObjects, scopeDisposed, scopeMessages>>

restVars == <<errorVars, invoked, responseVars, callVars>>

vars == <<flatVars, scopeVars, adapterVars, sent, mergeVars, restVars>>

\* ----------------------------------------------------------------- helpers
LastN(seq, n) ==
    IF Len(seq) <= n THEN seq ELSE SubSeq(seq, Len(seq) - n + 1, Len(seq))

Without(seq, x) == SelectSeq(seq, LAMBDA e : e # x)

\* JavaScript truthiness of config?.replayCacheSize: undefined and 0 are falsy
Truthy(replayCacheSize) == replayCacheSize # Undefined /\ replayCacheSize # 0

\* a config left out counts as {}: its replayCacheSize is undefined
isCacheSizeEqual(firstConfig, secondConfig) ==
    firstConfig.replayCacheSize = secondConfig.replayCacheSize

isChannelConfiguredWithCaching(channel) ==
    channel # 0 /\ channelModels[channel].subscription # "none"

filterMessagesByChannelName(channelName, message) ==
    message.channelName = channelName

Repeat(x, n) == [i \in 1..n |-> x]

\* -------------------------------------------------------- the channel model
\* createChannelImpl: a new observable, a new handle and a new channel model,
\* stored under the name whatever was stored there.  With a truthy
\* replayCacheSize the observable is shareReplay(replayCacheSize) and the broker
\* subscribes to it at once, which connects it to the Subject for good.
\* Three fields record history and are no program state: replaces (the model
\* the name had before), since (the number of messages published before the
\* name began to cache with this size: a create that repeats the size of a
\* caching model keeps it) and disposed (set by dispose).
\* createChannelImpl with shareReplay applied whatever the config says, with
\* one message cached when no size is given
createChannelImplReplayAlways(channelName, config) ==
    LET replayCacheSize ==
            IF Truthy(config.replayCacheSize) THEN config.replayCacheSize ELSE 1
        index == Len(channelModels) + 1
        channelModel ==
            [channelName |-> channelName,
             config |-> config,
             cacheSize |-> replayCacheSize,
             buffer |-> <<>>,
             observers |-> <<KeepAlive>>,
             subscription |-> "open",
             replaces |-> channelLookup[channelName],
             since |-> IF isChannelConfiguredWithCaching(channelLookup[channelName])
                       THEN channelModels[channelLookup[channelName]].since
                       ELSE Len(published),
             disposed |-> FALSE]
    IN  [channelModels |-> Append(channelModels, channelModel),
         channelLookup |-> [channelLookup EXCEPT ![channelName] = index],
         messagePublisher |->
             Append(messagePublisher,
                    [kind |-> "replay", channelName |-> channelName, target |-> index]),
         channel |-> index,
         threw |-> FALSE]

\* createChannelImpl whose shareReplay starts out holding the last messages
\* already published on the name
createChannelImplReplaysPast(channelName, config) ==
    LET replayCacheSize == config.replayCacheSize
        cached == Truthy(replayCacheSize)
        index == Len(channelModels) + 1
        past == SelectSeq([i \in 1..Len(published) |-> i],
                          LAMBDA i : published[i] = channelName)
        channelModel ==
            [channelName |-> channelName,
             config |-> config,
             cacheSize |-> IF cached THEN replayCacheSize ELSE 0,
             buffer |-> IF cached THEN LastN(past, replayCacheSize) ELSE <<>>,
             observers |-> IF cached THEN <<KeepAlive>> ELSE <<>>,
             subscription |-> IF cached THEN "open" ELSE "none",
             replaces |-> channelLookup[channelName],
             since |-> IF cached /\ isChannelConfiguredWithCaching(channelLookup[channelName])
                       THEN channelModels[channelLookup[channelName]].since
                       ELSE Len(published),
             disposed |-> FALSE]
    IN  [channelModels |-> Append(channelModels, channelModel),
         channelLookup |-> [channelLookup EXCEPT ![channelName] = index],
         messagePublisher |->
             IF cached
             THEN Append(messagePublisher,
                         [kind |-> "replay", channelName |-> channelName, target |-> index])
             ELSE messagePublisher,
         channel |-> index,
         threw |-> FALSE]

createChannelImpl(channelName, config) ==
    LET replayCacheSize == config.replayCacheSize
        cached == Truthy(replayCacheSize)
        index == Len(channelModels) + 1
        channelModel ==
            [channelName |-> channelName,
             config |-> config,
             cacheSize |-> IF cached THEN replayCacheSize ELSE 0,
             buffer |-> <<>>,
             observers |-> IF cached THEN <<KeepAlive>> ELSE <<>>,
             subscription |-> IF cached THEN "open" ELSE "none",
             replaces |-> channelLookup[channelName],
             since |-> IF cached /\ isChannelConfiguredWithCaching(channelLookup[channelName])
                       THEN channelModels[channelLookup[channelName]].since
                       ELSE Len(published),
             disposed |-> FALSE]
    IN  [channelModels |-> Append(channelModels, channelModel),
         channelLookup |-> [channelLookup EXCEPT ![channelName] = index],
         messagePublisher |->
             IF cached
             THEN Append(messagePublisher,
                         [kind |-> "replay", channelName |-> channelName, target |-> index])
             ELSE messagePublisher,
         channel |-> index,
         threw |-> FALSE]

\* the state left as it is, with the given return value
Unchanged(channel, threw) ==
    [channelModels |-> channelModels,
     channelLookup |-> channelLookup,
     messagePublisher |-> messagePublisher,
     channel |-> channel,
     threw |-> threw]

\* createCachedChannel that takes the name out of the lookup before it throws
createCachedChannelForgetsOnConflict(channelName, channelModel, config) ==
    IF /\ isChannelConfiguredWithCaching(channelModel)
       /\ ~isCacheSizeEqual(channelModels[channelModel].config, config)
    THEN [channelModels |-> channelModels,
          channelLookup |-> [channelLookup EXCEPT ![channelName] = 0],
          messagePublisher |-> messagePublisher,
          channel |-> 0,
          threw |-> TRUE]
    ELSE createChannelImpl(channelName, config)

createCachedChannel(channelName, channelModel, config) ==
    IF /\ isChannelConfiguredWithCaching(channelModel)
       /\ ~isCacheSizeEqual(channelModels[channelModel].config, config)
    THEN Unchanged(0, TRUE)
    ELSE createChannelImpl(channelName, config)

\* create that builds the channel again when it is called without config on a
\* name that has a model
createAlwaysRebuilds(channelName, config) ==
    LET existingChannelModel == channelLookup[channelName]
    IN  IF existingChannelModel = 0
        THEN createChannelImpl(channelName, config)
        ELSE IF config.defined
             THEN createCachedChannel(channelName, existingChannelModel, config)
             ELSE createChannelImpl(channelName, channelModels[existingChannelModel].config)

create(channelName, config) ==
    LET existingChannelModel == channelLookup[channelName]
    IN  IF existingChannelModel = 0
        THEN createChannelImpl(channelName, config)
        ELSE IF config.defined
             THEN createCachedChannel(channelName, existingChannelModel, config)
             ELSE Unchanged(existingChannelModel, FALSE)

\* getDeferredObservable, run when the stream is subscribed: the channel model
\* of the name at that moment, built without config when there is none
getDeferredObservable(channelName) ==
    IF channelLookup[channelName] # 0
    THEN Unchanged(channelLookup[channelName], FALSE)
    ELSE createChannelImpl(channelName, NoConfig)

\* delivery by channel model instead of by the shared Subject: only the
\* observers of the model the lookup holds for the name receive the message
DeliveriesCurrentModelOnly(s, message) ==
    IF /\ ~subscribers[s].closed
       /\ subscribers[s].channelName = message.channelName
       /\ subscribers[s].observable = channelLookup[message.channelName]
    THEN 1
    ELSE 0

\* Subject.next(message): how many times the observers the Subject holds hand
\* the message to subscriber s: once for each filter observer of s that lets
\* it through, once for each place s has among the observers of a shareReplay
\* observable whose filter lets it through
Deliveries(s, message) ==
    LET passing ==
            {i \in DOMAIN messagePublisher :
                filterMessagesByChannelName(messagePublisher[i].channelName, message)}
        direct ==
            {i \in passing :
                messagePublisher[i].kind = "filter" /\ messagePublisher[i].target = s}
        replayed ==
            UNION {{<<i, j>> : j \in {k \in DOMAIN channelModels[messagePublisher[i].target].observers :
                                        channelModels[messagePublisher[i].target].observers[k] = s}} :
                   i \in {k \in passing : messagePublisher[k].kind = "replay"}}
    IN  Cardinality(direct) + Cardinality(replayed)

\* Subject.next(message): the buffers of the connected shareReplay observables
BufferAfter(o, message) ==
    IF \E i \in DOMAIN messagePublisher :
            /\ messagePublisher[i].kind = "replay"
            /\ messagePublisher[i].target = o
            /\ filterMessagesByChannelName(messagePublisher[i].channelName, message)
    THEN LastN(Append(channelModels[o].buffer, message.id), channelModels[o].cacheSize)
    ELSE channelModels[o].buffer

\* this.messagePublisher.next(message)
next(message) ==
    /\ published' = Append(published, message.channelName)
    /\ subscribers' =
           [s \in DOMAIN subscribers |->
               [subscribers[s] EXCEPT
                   !.received = @ \o Repeat(message.id, Deliveries(s, message))]]
    /\ channelModels' =
           [o \in DOMAIN channelModels |->
               [channelModels[o] EXCEPT !.buffer = BufferAfter(o, message)]]

\* the keys of a registry in the order Object.entries visits them: the order
\* they were inserted in, which is the order of the ids
RECURSIVE entries(_)
entries(registry) ==
    IF registry = {} THEN <<>>
    ELSE LET id == CHOOSE i \in registry : \A j \in registry : i <= j
         IN  <<id>> \o entries(registry \ {id})

\* a forEach that stops after the first adapter
sendMessageToFirstAdapter(message) ==
    [i \in 1..(IF adapters = {} THEN 0 ELSE 1) |->
        [adapterId |-> entries(adapters)[i], id |-> message.id]]

\* Object.entries(this.adapters).forEach(adapter.sendMessage(message)): the
\* invocations of sendMessage, in order
sendMessage(message) ==
    [i \in 1..Cardinality(adapters) |->
        [adapterId |-> entries(adapters)[i], id |-> message.id]]

\* the outside observers shareReplay observable o hands a message to, in the
\* order they subscribed to it
replayObservers(o) == SelectSeq(channelModels[o].observers, LAMBDA s : s # KeepAlive)

\* Subject.next(message) with the connections of the shareReplay observables
\* visited before the filter observers
RECURSIVE observersInvokedReplayFirst(_, _)
observersInvokedReplayFirst(message, i) ==
    LET replays == SelectSeq(messagePublisher, LAMBDA e : e.kind = "replay")
        filters == SelectSeq(messagePublisher, LAMBDA e : e.kind = "filter")
        e == (replays \o filters)[i]
    IN  IF i > Len(messagePublisher) THEN <<>>
        ELSE (IF ~filterMessagesByChannelName(e.channelName, message) THEN <<>>
              ELSE IF e.kind = "filter" THEN <<e.target>>
              ELSE replayObservers(e.target))
             \o observersInvokedReplayFirst(message, i + 1)

\* Subject.next(message): the outside observers that are invoked, in order.
\* The Subject visits its observers from place i on in the order they were
\* added; a filter observer that lets the message through is an outside
\* observer, a connection of a shareReplay observable hands the message to
\* the observers of that observable.
RECURSIVE observersInvoked(_, _)
observersInvoked(message, i) ==
    IF i > Len(messagePublisher) THEN <<>>
    ELSE (IF ~filterMessagesByChannelName(messagePublisher[i].channelName, message)
          THEN <<>>
          ELSE IF messagePublisher[i].kind = "filter"
               THEN <<messagePublisher[i].target>>
               ELSE replayObservers(messagePublisher[i].target))
         \o observersInvoked(message, i + 1)

publishFunction(channelName) ==
    LET message == [id |-> Len(published) + 1, channelName |-> channelName]
    IN  /\ next(message)
        /\ sent' = sendMessage(message)

\* --------------------------------------------------------------- scope tree
\* The scope-tree broker (src/main/core/messagebroker.ts, lines 36-221).  Every
\* instance has its own channelLookup and its own Subject.  The operators take
\* and return a record st of the variables they change (scopes,
\* scopeSubscribers) and of the result of the call (instance or threw).
\* An observable of an instance is the instance's Subject filtered by channel
\* name (a shareReplay observable stays connected to it), so Subject.next reaches
\* every observer of the instance on that name once.  A channel model that is
\* no longer in the lookup cannot be subscribed to any more and is left out.

\* createScope() called without a name: scopeName is undefined
NoScopeName == ""

\* the scope names createScope is called with
ScopeNames == {NoScopeName, "x"}

\* the config arguments create is called with on an instance of the tree
ScopeConfigs == {NoConfig, [defined |-> TRUE, replayCacheSize |-> MaxCacheSize]}

\* channelLookup[channelName] when the name has no channel model
NoChannelModel == [present |-> FALSE]

\* new MessageBroker(rsvpMediator, parent)
newMessageBroker(parent) ==
    [parent |-> parent,
     children |-> <<>>,
     channelLookup |-> [c \in Channels |-> NoChannelModel]]

isChannelConfiguredWithCachingInScope(channel) ==
    channel.present /\ channel.subscription # "none"

\* createChannelImpl of instance b
createChannelImplInScope(st, b, channelName, config) ==
    LET replayCacheSize == config.replayCacheSize
        cached == Truthy(replayCacheSize)
        channelModel ==
            [present |-> TRUE,
             config |-> config,
             cacheSize |-> IF cached THEN replayCacheSize ELSE 0,
             buffer |-> <<>>,
             subscription |-> IF cached THEN "open" ELSE "none"]
    IN  [st EXCEPT !.scopes[b].channelLookup[channelName] = channelModel,
                   !.threw = FALSE]

createCachedChannelInScope(st, b, channelName, channelModel, config) ==
    IF /\ isChannelConfiguredWithCachingInScope(channelModel)
       /\ ~isCacheSizeEqual(channelModel.config, config)
    THEN [st EXCEPT !.threw = TRUE]
    ELSE createChannelImplInScope(st, b, channelName, config)

\* create of instance b
createInScope(st, b, channelName, config) ==
    LET existingChannelModel == st.scopes[b].channelLookup[channelName]
    IN  IF ~existingChannelModel.present
        THEN createChannelImplInScope(st, b, channelName, config)
        ELSE IF config.defined
             THEN createCachedChannelInScope(st, b, channelName, existingChannelModel, config)
             ELSE [st EXCEPT !.threw = FALSE]

\* getDeferredObservable of instance b, run when the stream is subscribed
getDeferredObservableInScope(st, b, channelName) ==
    IF st.scopes[b].channelLookup[channelName].present
    THEN st
    ELSE createChannelImplInScope(st, b, channelName, NoConfig)

\* the instances a message handed to the Subject of instance b reaches, when
\* all instances share one Subject
sharedSubject(st, b) == DOMAIN st.scopes

\* the instances a message handed to the Subject of instance b reaches, when
\* the message is handed to the Subject of the parent as well
parentSubjectToo(st, b) == {b, st.scopes[b].parent}

\* the instances a message handed to the Subject of instance b reaches: every
\* instance has a Subject of its own
ownSubject(st, b) == {b}

\* this.messagePublisher.next(this.createMessage(channelName, data, type)) of
\* instance b, for the message of publish call k: the observers of the name get
\* it and the shareReplay buffer of the name keeps it
messagePublisherNext(st, b, channelName, k) ==
    LET reached == ownSubject(st, b) \cap DOMAIN st.scopes
    IN  [st EXCEPT
            !.scopeSubscribers =
                [s \in DOMAIN st.scopeSubscribers |->
                    IF /\ st.scopeSubscribers[s].scope \in reached
                       /\ st.scopeSubscribers[s].channelName = channelName
                    THEN [st.scopeSubscribers[s] EXCEPT !.received = Append(@, k)]
                    ELSE st.scopeSubscribers[s]],
            !.scopes =
                [i \in DOMAIN st.scopes |->
                    IF i \in reached /\ isChannelConfiguredWithCachingInScope(
                                            st.scopes[i].channelLookup[channelName])
                    THEN [st.scopes[i] EXCEPT
                             !.channelLookup[channelName].buffer =
                                 LastN(Append(@, k),
                                       st.scopes[i].channelLookup[channelName].cacheSize)]
                    ELSE st.scopes[i]]]

\* publishFunction of a channel of instance b: first
\* scope.instance.create(channelName).publish(data) for every child, then the
\* message on the instance's own Subject
RECURSIVE publishFunctionInScope(_, _, _, _)
RECURSIVE publishToChildren(_, _, _, _, _)
publishToChildren(st, children, i, channelName, k) ==
    IF i > Len(children)
    THEN st
    ELSE LET scope == children[i].instance
             created == createInScope(st, scope, channelName, NoConfig)
         IN  publishToChildren(publishFunctionInScope(created, scope, channelName, k),
                               children, i + 1, channelName, k)

publishFunctionInScope(st, b, channelName, k) ==
    messagePublisherNext(publishToChildren(st, st.scopes[b].children, 1, channelName, k),
                         b, channelName, k)

\* publish(data) called without type: type is undefined
NoType == ""

\* the data and the types publish is called with
ScopeData == {"d", "e"}

ScopeTypes == {NoType, "t"}

\* publishFunction(data, type) of a channel of instance b: the messages
\* createMessage makes, one on every instance the call reaches.  The children
\* are called with publish(data); type is handed to forEach, as its second
\* argument, and not to publish.
RECURSIVE messagesCreated(_, _, _, _)
messagesCreated(st, b, data, type) ==
    LET reached == {st.scopes[b].children[i].instance : i \in DOMAIN st.scopes[b].children}
    IN  UNION {messagesCreated(st, child, data, NoType) : child \in reached}
        \cup {[scope |-> b, data |-> data, type |-> type]}

\* dispose of instance b: first dispose(channelName) of every child, then the
\* instance's own lookup entry (the keepalive subscription that is unsubscribed
\* belongs to the channel model that leaves the lookup)
RECURSIVE disposeInScope(_, _, _)
RECURSIVE disposeChildren(_, _, _, _)
\* dispose that leaves the lookup entries as they are
disposeLeavesLookup(st, b, channelName) == st

\* dispose of the instance it is called on only
disposeOwnScope(st, b, channelName) ==
    [st EXCEPT !.scopes[b].channelLookup[channelName] = NoChannelModel]

disposeChildren(st, children, i, channelName) ==
    IF i > Len(children)
    THEN st
    ELSE disposeChildren(disposeInScope(st, children[i].instance, channelName),
                         children, i + 1, channelName)

disposeInScope(st, b, channelName) ==
    LET below == disposeChildren(st, st.scopes[b].children, 1, channelName)
    IN  [below EXCEPT !.scopes[b].channelLookup[channelName] = NoChannelModel]

\* dispose of instance b: the instances on which channel.subscription.unsubscribe()
\* runs, those of the calls on the children first
RECURSIVE keepAlivesUnsubscribed(_, _, _)
keepAlivesUnsubscribed(st, b, channelName) ==
    UNION {keepAlivesUnsubscribed(st, st.scopes[b].children[i].instance, channelName) :
               i \in DOMAIN st.scopes[b].children}
    \cup (IF isChannelConfiguredWithCachingInScope(st.scopes[b].channelLookup[channelName])
          THEN {b}
          ELSE {})

NoDispose == [scope |-> 0, channelName |-> "", unsubscribed |-> {}]

\* the child of instance b that createScope(scopeName) finds, 0 when none
existingScope(st, b, scopeName) ==
    LET children == st.scopes[b].children
        found == {i \in DOMAIN children : children[i].name = scopeName}
    IN  IF found = {}
        THEN 0
        ELSE children[CHOOSE i \in found : \A j \in found : i <= j].instance

\* createScope that looks for no child of the name
createScopeAlwaysNew(st, b, scopeName) ==
    LET instance == Len(st.scopes) + 1
    IN  [st EXCEPT
            !.scopes = Append([@ EXCEPT ![b].children =
                                   Append(@, [name |-> scopeName, instance |-> instance])],
                              newMessageBroker(b)),
            !.instance = instance]

\* createScope that takes the first child for the one of the name
createScopeFirstChild(st, b, scopeName) ==
    IF st.scopes[b].children # <<>>
    THEN [st EXCEPT !.instance = st.scopes[b].children[1].instance]
    ELSE createScopeAlwaysNew(st, b, scopeName)

\* createScope of instance b
createScope(st, b, scopeName) ==
    IF existingScope(st, b, scopeName) # 0
    THEN [st EXCEPT !.instance = existingScope(st, b, scopeName)]
    ELSE LET instance == Len(st.scopes) + 1
         IN  [st EXCEPT
                 !.scopes = Append([@ EXCEPT ![b].children =
                                        Append(@, [name |-> scopeName, instance |-> instance])],
                                   newMessageBroker(b)),
                 !.instance = instance]

\* dispose(channelName) of instance b for every name in names
RECURSIVE disposeEvery(_, _, _)
disposeEvery(st, b, names) ==
    IF names = {}
    THEN st
    ELSE LET channelName == CHOOSE c \in names : TRUE
         IN  disposeEvery(disposeInScope(st, b, channelName), b, names \ {channelName})

\* destroy of instance b: every channel registered on the instance is disposed,
\* then the parent link is cleared
destroy(st, b) ==
    LET registered == {c \in Channels : st.scopes[b].channelLookup[c].present}
        disposed == disposeEvery(st, b, registered)
    IN  [disposed EXCEPT !.scopes[b].parent = 0]

\* the variables as the record the operators take
scopeState ==
    [scopes |-> scopes,
     scopeSubscribers |-> scopeSubscribers,
     instance |-> 0,
     threw |-> FALSE]

NoScopeCall == [op |-> "none", scope |-> 0, scopeName |-> NoScopeName, instance |-> 0]

\* ------------------------------------------------------------------ adapters
\* what the model records of an adapter: whether a registerAdapter call with
\* it has returned, whether an unregisterAdapter call with its id has
\* returned, and how often its getMessageStream was invoked
NewAdapter == [registered |-> FALSE, unregistered |-> FALSE, streams |-> 0]

NoInbound == [adapterId |-> 0, channelName |-> "", id |-> 0]

\* the configs of the create calls next to adapters
AdapterConfigs == {NoConfig, [defined |-> TRUE, replayCacheSize |-> MaxCacheSize]}

\* the channel names of inbound messages: a name of the broker and one that
\* no channel of the broker has
InboundChannels == Channels \cup {"other"}

\* getOrCreateAdapterObservables without the cache of raw streams: the raw
\* stream is asked for whenever the channel has no filtered stream of the id
getOrCreateAdapterObservablesNoStreamCache(channelName) ==
    LET fresh == {adapterId \in adapters : adapterId \notin adapterObservables[channelName]}
    IN  [adapterStreams |-> adapterStreams \cup fresh,
         adapterObservables |-> [adapterObservables EXCEPT ![channelName] = @ \cup fresh],
         getMessageStream |-> fresh,
         observables |-> adapters]

\* getOrCreateAdapterObservables(channelName) of messagebroker.ts: for every
\* adapter of the registry the filtered stream the channel name has for it,
\* made from the adapter's raw stream when it has none; the raw stream is
\* asked of the adapter (getMessageStream) when adapterStreams has none
getOrCreateAdapterObservables(channelName) ==
    LET fresh == {adapterId \in adapters : adapterId \notin adapterObservables[channelName]}
    IN  [adapterStreams |-> adapterStreams \cup fresh,
         adapterObservables |-> [adapterObservables EXCEPT ![channelName] = @ \cup fresh],
         getMessageStream |-> fresh \ adapterStreams,
         observables |-> adapters]

\* the raw stream of an adapter emits message: how many times subscriber s is
\* handed it. The observers of the raw stream are those of the observables
\* it was merged into, which are the observers the Subject has for them.
InboundDeliveries(adapterId, s, message) ==
    LET passing ==
            {i \in DOMAIN messagePublisher :
                filterMessagesByChannelName(messagePublisher[i].channelName, message)}
        direct ==
            {i \in passing :
                /\ messagePublisher[i].kind = "filter"
                /\ messagePublisher[i].target = s
                /\ adapterId \in merged[subscribers[s].observable]}
        replayed ==
            UNION {{<<i, j>> : j \in {k \in DOMAIN channelModels[messagePublisher[i].target].observers :
                                        channelModels[messagePublisher[i].target].observers[k] = s}} :
                   i \in {k \in passing : /\ messagePublisher[k].kind = "replay"
                                          /\ adapterId \in merged[messagePublisher[k].target]}}
    IN  Cardinality(direct) + Cardinality(replayed)

\* the raw stream of an adapter emits message: the buffers of the connected
\* shareReplay observables it was merged into
InboundBufferAfter(adapterId, o, message) ==
    IF /\ adapterId \in merged[o]
       /\ \E i \in DOMAIN messagePublisher :
            /\ messagePublisher[i].kind = "replay"
            /\ messagePublisher[i].target = o
            /\ filterMessagesByChannelName(messagePublisher[i].channelName, message)
    THEN LastN(Append(channelModels[o].buffer, message.id), channelModels[o].cacheSize)
    ELSE channelModels[o].buffer

\* what a createChannelImpl of messagebroker.ts adds to the one of part_005:
\* r is the outcome of the part they share; when it built a channel model,
\* the adapter observables of the name were fetched and merged into it
MergeAdapterObservables(r, channelName) ==
    LET g == getOrCreateAdapterObservables(channelName)
    IN  IF Len(r.channelModels) > Len(channelModels)
        THEN /\ adapterStreams' = g.adapterStreams
             /\ adapterObservables' = g.adapterObservables
             /\ adapterInfo' =
                    [a \in DOMAIN adapterInfo |->
                        IF a \in g.getMessageStream
                        THEN [adapterInfo[a] EXCEPT !.streams = @ + 1]
                        ELSE adapterInfo[a]]
             /\ merged' = Append(merged, g.observables)
        ELSE UNCHANGED <<adapterStreams, adapterObservables, adapterInfo, merged>>

\* ---------------------------------------------------------------- error stream
\* the reasons an adapter rejects a promise with
Errors == {"boom", "bang"}

NoPromise ==
    [promise |-> "none", adapterId |-> 0, channelName |-> "", message |-> 0,
     rejected |-> FALSE, error |-> ""]

\* an IAdapterError: channelName "" and message 0 stand for fields that are
\* not set; timestamp tells that the field is set, the time itself is not
\* modelled
IAdapterError(adapterId, channelName, message, error) ==
    [adapterId |-> adapterId, channelName |-> channelName, message |-> message,
     error |-> error, timestamp |-> TRUE]

\* an error stream that hands each record to one observer only
errorStreamNextToFirstObserver(record) ==
    /\ errors' = Append(errors, record)
    /\ errorObservers' =
           [o \in DOMAIN errorObservers |->
               IF o = 1
               THEN [errorObservers[o] EXCEPT !.received = Append(@, record)]
               ELSE errorObservers[o]]

\* this.errorStream.next(record): the Subject hands the record to the
\* observers it has at that moment and keeps nothing
errorStreamNext(record) ==
    /\ errors' = Append(errors, record)
    /\ errorObservers' =
           [o \in DOMAIN errorObservers |->
               [errorObservers[o] EXCEPT !.received = Append(@, record)]]

\* ----------------------------------------------------------- ResponseBroker
\* src/main/core/responseBroker.ts, lines 23-59.  A responder is the id
\* registerResponder gave it; its handler answers a payload with the pair of
\* its id and the payload.  A channel name with no list (undefined) has <<>>:
\* the code never keeps an empty list.
ResponseChannels == {"a", "b"}

Payloads == {"p", "q"}

NoCollate == [channelName |-> "", payload |-> "", executed |-> <<>>, replies |-> <<>>]

\* r.execute(payload) of the responder id
execute(id, payload) == <<id, payload>>

\* collate(channelName, payload): the handlers run, in the order of the list,
\* and their replies
collate(channelName, payload) ==
    [channelName |-> channelName,
     payload |-> payload,
     executed |-> responders[channelName],
     replies |-> [i \in DOMAIN responders[channelName] |->
                      execute(responders[channelName][i], payload)]]

\* responders.findIndex((responder) => responder.id === id): the place of the
\* id in the list, from 0, and -1 when it is not there
findIndex(list, id) ==
    IF \E i \in DOMAIN list : list[i] = id
    THEN (CHOOSE i \in DOMAIN list : list[i] = id /\ \A j \in 1..(i - 1) : list[j] # id) - 1
    ELSE -1

\* list.splice(start, 1): one element taken out at start, counted from the
\* end of the list when start is negative
splice(list, start) ==
    LET from == IF start < 0
                THEN (IF Len(list) + start < 0 THEN 0 ELSE Len(list) + start)
                ELSE (IF start > Len(list) THEN Len(list) ELSE start)
    IN  [i \in 1..(Len(list) - (IF from < Len(list) THEN 1 ELSE 0)) |->
            IF i <= from THEN list[i] ELSE list[i + 1]]

\* disconnect(channel, id) of the earlier revision (lines 107-112): the list
\* filtered by id, the other ids stay in order
disconnectByFilter(channel, id) ==
    [responders EXCEPT ![channel] = SelectSeq(@, LAMBDA r : r # id)]

\* disconnect(channel, id) of a responder reference: nothing without a list
\* for the channel, else one element spliced out at the index of the id
disconnect(channel, id) ==
    IF responders[channel] = <<>>
    THEN responders
    ELSE [responders EXCEPT ![channel] = splice(@, findIndex(@, id))]

\* ------------------------------------------------------------------ actions
NoCall ==
    [op |-> "none", channelName |-> "", config |-> NoConfig,
     existing |-> 0, channel |-> 0, threw |-> FALSE]

Init ==
    /\ channelLookup = [c \in Channels |-> 0]
    /\ channelModels = <<>>
    /\ messagePublisher = <<>>
    /\ subscribers = <<>>
    /\ published = <<>>
    /\ handles = {}
    /\ retired = {}
    /\ ret = NoCall
    /\ scopes = <<newMessageBroker(0)>>
    /\ scopeSubscribers = <<>>
    /\ scopePublished = <<>>
    /\ scopeRet = NoScopeCall
    /\ adapters = {}
    /\ adapterSubscriptions = {}
    /\ adapterCalls = {}
    /\ adapterInfo = <<>>
    /\ sent = <<>>
    /\ inbound = NoInbound
    /\ adapterStreams = {}
    /\ adapterObservables = [c \in Channels |-> {}]
    /\ merged = <<>>
    /\ errorObservers = <<>>
    /\ errors = <<>>
    /\ sends = {}
    /\ settled = NoPromise
    /\ invoked = <<>>
    /\ responders = [c \in ResponseChannels |-> <<>>]
    /\ responderRefs = <<>>
    /\ collated = NoCollate
    /\ streams = <<>>
    /\ adapterObjects = <<>>
    /\ scopeDisposed = NoDispose
    /\ scopeMessages = {}

\* broker.create(channelName, config)
Create(channelName, config) ==
    LET r == create(channelName, config)
    IN  /\ Len(r.channelModels) <= MaxChannelModels
        /\ channelModels' = r.channelModels
        /\ channelLookup' = r.channelLookup
        /\ messagePublisher' = r.messagePublisher
        /\ handles' = IF r.threw THEN handles ELSE handles \cup {r.channel}
        /\ ret' = [op |-> "create", channelName |-> channelName, config |-> config,
                   existing |-> channelLookup[channelName],
                   channel |-> r.channel, threw |-> r.threw]
        /\ UNCHANGED <<subscribers, published, retired, scopeVars, adapterVars, sent,
                       mergeVars, restVars>>

\* broker.get(channelName).subscribe(observer), or handle.stream.subscribe(observer):
\* both are getDeferredObservable(channelName).  A filter observable adds the
\* observer to the Subject; a shareReplay observable replays its buffer to the
\* observer and adds it to its own observers.
deferredSubscribe(channelName) ==
    LET r == getDeferredObservable(channelName)
        o == r.channel
        s == Len(subscribers) + 1
        replay == r.channelModels[o].cacheSize > 0
    IN  /\ Len(r.channelModels) <= MaxChannelModels
        /\ channelLookup' = r.channelLookup
        /\ channelModels' =
               IF replay
               THEN [r.channelModels EXCEPT ![o].observers = Append(@, s)]
               ELSE r.channelModels
        /\ messagePublisher' =
               IF replay
               THEN r.messagePublisher
               ELSE Append(r.messagePublisher,
                           [kind |-> "filter", channelName |-> channelName, target |-> s])
        /\ subscribers' =
               Append(subscribers,
                      [channelName |-> channelName,
                       observable |-> o,
                       at |-> Len(published),
                       received |-> IF replay THEN r.channelModels[o].buffer ELSE <<>>,
                       created |-> channelLookup[channelName] = 0,
                       closed |-> FALSE])
        /\ ret' = NoCall

\* the subscribe of a stream, with everything else left as it is
SubscribeStream(channelName) ==
    /\ deferredSubscribe(channelName)
    /\ UNCHANGED <<published, handles, retired, scopeVars, adapterVars, sent,
                   mergeVars, restVars>>

\* a subscribe while fewer than MaxSubscribers observers have subscribed
Subscribe(channelName) ==
    /\ Len(subscribers) < MaxSubscribers
    /\ SubscribeStream(channelName)

\* an unsubscribe that also disconnects the shareReplay observable the
\* observer was subscribed to
UnsubscribeTearsDown(s) ==
    /\ s \in DOMAIN subscribers
    /\ ~subscribers[s].closed
    /\ messagePublisher' =
           SelectSeq(messagePublisher,
                     LAMBDA e : /\ ~(e.kind = "filter" /\ e.target = s)
                                /\ ~(e.kind = "replay" /\ e.target = subscribers[s].observable))
    /\ channelModels' =
           [o \in DOMAIN channelModels |->
               [channelModels[o] EXCEPT !.observers = Without(@, s)]]
    /\ subscribers' = [subscribers EXCEPT ![s].closed = TRUE]
    /\ ret' = NoCall
    /\ UNCHANGED <<channelLookup, published, handles, retired, scopeVars, adapterVars,
                   sent, mergeVars, restVars>>

\* subscription.unsubscribe() of an outside observer
Unsubscribe(s) ==
    /\ s \in DOMAIN subscribers
    /\ ~subscribers[s].closed
    /\ messagePublisher' =
           SelectSeq(messagePublisher, LAMBDA e : ~(e.kind = "filter" /\ e.target = s))
    /\ channelModels' =
           [o \in DOMAIN channelModels |->
               [channelModels[o] EXCEPT !.observers = Without(@, s)]]
    /\ subscribers' = [subscribers EXCEPT ![s].closed = TRUE]
    /\ ret' = NoCall
    /\ UNCHANGED <<channelLookup, published, handles, retired, scopeVars, adapterVars,
                   sent, mergeVars, restVars>>

\* handle.publish(data) on a handle some create call returned
Publish(h) ==
    /\ h \in handles
    /\ Len(published) < MaxMessages
    /\ publishFunction(channelModels[h].channelName)
    /\ ret' = NoCall
    /\ UNCHANGED <<channelLookup, messagePublisher, handles, retired, scopeVars,
                   adapterVars, mergeVars, restVars>>

\* handle.publish(data) with the order of the invocations recorded
PublishOrdered(h) ==
    /\ h \in handles
    /\ Len(published) < MaxMessages
    /\ publishFunction(channelModels[h].channelName)
    /\ invoked' = observersInvoked([id |-> Len(published) + 1,
                                    channelName |-> channelModels[h].channelName], 1)
    /\ ret' = NoCall
    /\ UNCHANGED <<channelLookup, messagePublisher, handles, retired, scopeVars,
                   adapterVars, mergeVars, errorVars, responseVars, callVars>>

\* dispose without the delete of the lookup entry
disposeKeepsLookup(channelName) ==
    LET channel == channelLookup[channelName]
    IN  [channelModels |->
             IF isChannelConfiguredWithCaching(channel)
             THEN [channelModels EXCEPT ![channel].subscription = "closed",
                                        ![channel].observers = Without(@, KeepAlive),
                                        ![channel].disposed = TRUE]
             ELSE channelModels,
         channelLookup |-> channelLookup,
         messagePublisher |-> messagePublisher,
         channel |-> 0,
         threw |-> FALSE]

\* broker.dispose(channelName): the keepalive subscription of a caching model
\* is unsubscribed and the name is taken out of the lookup
dispose(channelName) ==
    LET channel == channelLookup[channelName]
        unsubscribed ==
            IF isChannelConfiguredWithCaching(channel)
            THEN [channelModels EXCEPT ![channel].subscription = "closed",
                                       ![channel].observers = Without(@, KeepAlive)]
            ELSE channelModels
    IN  [channelModels |->
             IF channel = 0 THEN unsubscribed
             ELSE [unsubscribed EXCEPT ![channel].disposed = TRUE],
         channelLookup |-> [channelLookup EXCEPT ![channelName] = 0],
         messagePublisher |-> messagePublisher,
         channel |-> 0,
         threw |-> FALSE]

Dispose(channelName) ==
    LET r == dispose(channelName)
    IN  /\ channelModels' = r.channelModels
        /\ channelLookup' = r.channelLookup
        /\ retired' =
               retired \cup {h \in handles : channelModels[h].channelName = channelName}
        /\ ret' = NoCall
        /\ UNCHANGED <<messagePublisher, subscribers, published, handles, scopeVars,
                       adapterVars, sent, mergeVars, restVars>>

\* create, subscribe, publish and dispose in any order
Next ==
    \/ \E c \in Channels, config \in Configs : Create(c, config)
    \/ \E c \in Channels : Subscribe(c)
    \/ \E h \in 1..MaxChannelModels : Publish(h)
    \/ \E c \in Channels : Dispose(c)

Spec == Init /\ [][Next]_vars

\* the same with observers that unsubscribe
NextCancel ==
    \/ Next
    \/ \E s \in 1..MaxSubscribers : Unsubscribe(s)

SpecCancel == Init /\ [][NextCancel]_vars

\* a subscribe while fewer than MaxObservers observers have subscribed
SubscribeObserver(channelName) ==
    /\ Len(subscribers) < MaxObservers
    /\ SubscribeStream(channelName)

\* several observers that subscribe and unsubscribe next to create and
\* publish
NextObservers ==
    \/ \E c \in Channels, config \in AdapterConfigs : Create(c, config)
    \/ \E c \in Channels : SubscribeObserver(c)
    \/ \E s \in 1..MaxObservers : Unsubscribe(s)
    \/ \E h \in 1..MaxChannelModels : PublishOrdered(h)

SpecObservers == Init /\ [][NextObservers]_vars

\* ------------------------------------------------------------ streams kept
\* broker.get(channelName): the stream is handed out and nothing is looked up.
\* The record keeps the channel model the name had at that moment, which the
\* stream itself does not hold.  The stream of a handle is the same
\* getDeferredObservable(channelName), made when the handle is.
Get(channelName) ==
    /\ Len(streams) < MaxStreams
    /\ streams' = Append(streams, [channelName |-> channelName,
                                   at |-> Len(published),
                                   model |-> channelLookup[channelName],
                                   subscribers |-> <<>>])
    /\ ret' = NoCall
    /\ UNCHANGED <<channelLookup, channelModels, messagePublisher, subscribers, published,
                   handles, retired, scopeVars, adapterVars, sent, mergeVars, errorVars,
                   invoked, responseVars, adapterObjects, scopeDisposed,
                   scopeMessages>>

\* a stream that holds the observable the name had when get was called, and
\* looks the name up on subscribe only when it had none
SubscribeGotResolvedAtGet(g) ==
    LET channelName == streams[g].channelName
        r == IF streams[g].model # 0
             THEN Unchanged(streams[g].model, FALSE)
             ELSE getDeferredObservable(channelName)
        o == r.channel
        s == Len(subscribers) + 1
        replay == r.channelModels[o].cacheSize > 0
    IN  /\ g \in DOMAIN streams
        /\ Len(subscribers) < MaxSubscribers
        /\ Len(r.channelModels) <= MaxChannelModels
        /\ channelLookup' = r.channelLookup
        /\ channelModels' =
               IF replay
               THEN [r.channelModels EXCEPT ![o].observers = Append(@, s)]
               ELSE r.channelModels
        /\ messagePublisher' =
               IF replay
               THEN r.messagePublisher
               ELSE Append(r.messagePublisher,
                           [kind |-> "filter", channelName |-> channelName, target |-> s])
        /\ subscribers' =
               Append(subscribers,
                      [channelName |-> channelName,
                       observable |-> o,
                       at |-> Len(published),
                       received |-> IF replay THEN r.channelModels[o].buffer ELSE <<>>,
                       created |-> channelLookup[channelName] = 0,
                       closed |-> FALSE])
        /\ ret' = NoCall
        /\ streams' = [streams EXCEPT ![g].subscribers = Append(@, s)]
        /\ UNCHANGED <<published, handles, retired, scopeVars, adapterVars, sent,
                       mergeVars, errorVars, invoked, responseVars, adapterObjects, scopeDisposed,
                   scopeMessages>>

\* stream.subscribe(observer) on a stream get returned earlier: the function
\* handed to defer runs now
SubscribeGot(g) ==
    /\ g \in DOMAIN streams
    /\ Len(subscribers) < MaxSubscribers
    /\ deferredSubscribe(streams[g].channelName)
    /\ streams' = [streams EXCEPT ![g].subscribers = Append(@, Len(subscribers) + 1)]
    /\ UNCHANGED <<published, handles, retired, scopeVars, adapterVars, sent,
                   mergeVars, errorVars, invoked, responseVars, adapterObjects, scopeDisposed,
                   scopeMessages>>

\* create, publish and dispose with streams that are obtained at one moment
\* and subscribed to at a later one
NextDefer ==
    \/ \E c \in Channels, config \in Configs : Create(c, config)
    \/ \E c \in Channels : Get(c)
    \/ \E g \in 1..MaxStreams : SubscribeGot(g)
    \/ \E h \in 1..MaxChannelModels : Publish(h)
    \/ \E c \in Channels : Dispose(c)

SpecDefer == Init /\ [][NextDefer]_vars

\* ----------------------------------------------------------- adapter actions
\* broker.registerAdapter(adapter) up to its await: the adapter is put in the
\* registry under a fresh id and connect() is called
RegisterAdapter ==
    LET adapterId == Len(adapterInfo) + 1
    IN  /\ Len(adapterInfo) < MaxAdapters
        /\ adapters' = adapters \cup {adapterId}
        /\ adapterCalls' = adapterCalls \cup {[op |-> "registerAdapter", adapterId |-> adapterId]}
        /\ adapterInfo' = Append(adapterInfo, NewAdapter)
        /\ UNCHANGED <<flatVars, scopeVars, adapterSubscriptions, inbound, sent, mergeVars, restVars>>

\* registerAdapter after its await, connect() having resolved: the inbound
\* stream is asked for and subscribed to, and the id is returned
ConnectSettled(adapterId) ==
    /\ [op |-> "registerAdapter", adapterId |-> adapterId] \in adapterCalls
    /\ adapterSubscriptions' = adapterSubscriptions \cup {adapterId}
    /\ adapterInfo' = [adapterInfo EXCEPT ![adapterId].streams = @ + 1,
                                          ![adapterId].registered = TRUE]
    /\ adapterCalls' = adapterCalls \ {[op |-> "registerAdapter", adapterId |-> adapterId]}
    /\ UNCHANGED <<flatVars, scopeVars, adapters, inbound, sent, mergeVars, restVars>>

\* broker.unregisterAdapter(adapterId) up to its await: disconnect() is called
\* when the registry has the id, and the call waits in either case
UnregisterAdapter(adapterId) ==
    /\ adapterId \in DOMAIN adapterInfo
    /\ [op |-> "unregisterAdapter", adapterId |-> adapterId] \notin adapterCalls
    /\ adapterCalls' = adapterCalls \cup {[op |-> "unregisterAdapter", adapterId |-> adapterId]}
    /\ UNCHANGED <<flatVars, scopeVars, adapters, adapterSubscriptions, adapterInfo, inbound,
                   sent, mergeVars, restVars>>

\* unregisterAdapter after its await: the forwarding subscription of the id,
\* when there is one, is unsubscribed and the id leaves both records
DisconnectSettled(adapterId) ==
    /\ [op |-> "unregisterAdapter", adapterId |-> adapterId] \in adapterCalls
    /\ adapterSubscriptions' = adapterSubscriptions \ {adapterId}
    /\ adapters' = adapters \ {adapterId}
    /\ adapterInfo' = [adapterInfo EXCEPT ![adapterId].unregistered = TRUE]
    /\ adapterCalls' = adapterCalls \ {[op |-> "unregisterAdapter", adapterId |-> adapterId]}
    /\ UNCHANGED <<flatVars, scopeVars, inbound, sent, mergeVars, restVars>>

\* an inbound message that is handed on the way a published one is: to the
\* Subject and to every adapter of the registry
AdapterEmitsAndSends(adapterId, channelName) ==
    LET message == [id |-> Len(published) + 1, channelName |-> channelName]
    IN  /\ adapterId \in DOMAIN adapterInfo
        /\ Len(published) < MaxMessages
        /\ IF adapterId \in adapterSubscriptions
           THEN next(message) /\ sent' = sendMessage(message)
           ELSE /\ published' = Append(published, channelName)
                /\ UNCHANGED <<subscribers, channelModels, sent>>
        /\ inbound' = [adapterId |-> adapterId, channelName |-> channelName,
                       id |-> message.id]
        /\ ret' = NoCall
        /\ UNCHANGED <<channelLookup, messagePublisher, handles, retired, scopeVars,
                       adapters, adapterSubscriptions, adapterCalls, adapterInfo,
                       mergeVars, restVars>>

\* the inbound stream of an adapter emits a message for channelName: the
\* observer registerAdapter subscribed hands it to the Subject; without that
\* observer nobody receives it
AdapterEmits(adapterId, channelName) ==
    LET message == [id |-> Len(published) + 1, channelName |-> channelName]
    IN  /\ adapterId \in DOMAIN adapterInfo
        /\ Len(published) < MaxMessages
        /\ IF adapterId \in adapterSubscriptions
           THEN next(message)
           ELSE /\ published' = Append(published, channelName)
                /\ UNCHANGED <<subscribers, channelModels>>
        /\ inbound' = [adapterId |-> adapterId, channelName |-> channelName,
                       id |-> message.id]
        /\ ret' = NoCall
        /\ UNCHANGED <<channelLookup, messagePublisher, handles, retired, scopeVars,
                       adapters, adapterSubscriptions, adapterCalls, adapterInfo, sent,
                       mergeVars, restVars>>

\* the broker with adapters that register, unregister and emit in any order,
\* next to create, subscribe and publish
NextAdapter ==
    \/ \E c \in Channels, config \in AdapterConfigs : Create(c, config)
    \/ \E c \in Channels : Subscribe(c)
    \/ \E h \in 1..MaxChannelModels : Publish(h)
    \/ RegisterAdapter
    \/ \E a \in 1..MaxAdapters : ConnectSettled(a)
    \/ \E a \in 1..MaxAdapters : UnregisterAdapter(a)
    \/ \E a \in 1..MaxAdapters : DisconnectSettled(a)
    \/ \E a \in 1..MaxAdapters, c \in InboundChannels : AdapterEmits(a, c)

SpecAdapter == Init /\ [][NextAdapter]_vars

\* ------------------------------------------------- one adapter, several ids
\* the adapter object an id of the registry stands for
adapterOf(adapterId) ==
    IF adapterId \in DOMAIN adapterObjects THEN adapterObjects[adapterId] ELSE adapterId

\* broker.registerAdapter(adapter) up to its await, called with the adapter
\* object that was registered under adapterId before: the object is put in
\* the registry once more, under a fresh id
RegisterAdapterAgain(adapterId) ==
    LET id == Len(adapterInfo) + 1
    IN  /\ adapterId \in DOMAIN adapterInfo
        /\ Len(adapterInfo) < MaxAdapters
        /\ adapters' = adapters \cup {id}
        /\ adapterCalls' = adapterCalls \cup {[op |-> "registerAdapter", adapterId |-> id]}
        /\ adapterInfo' = Append(adapterInfo, NewAdapter)
        /\ adapterObjects' = adapterObjects @@ (id :> adapterOf(adapterId))
        /\ UNCHANGED <<flatVars, scopeVars, adapterSubscriptions, inbound, sent, mergeVars,
                       errorVars, invoked, responseVars, streams, scopeDisposed,
                       scopeMessages>>

\* the observers registerAdapter has subscribed to the inbound stream of an
\* adapter object: one for every id of the object that is forwarded
forwarders(adapter) == {id \in adapterSubscriptions : adapterOf(id) = adapter}

\* the inbound stream of an adapter object emits a message for channelName:
\* every observer registerAdapter subscribed to the stream hands it to the
\* Subject, so messagePublisher.next runs once for each of them
AdapterObjectEmits(adapter, channelName) ==
    LET message == [id |-> Len(published) + 1, channelName |-> channelName]
        calls == Cardinality(forwarders(adapter))
    IN  /\ adapter \in DOMAIN adapterInfo
        /\ adapterOf(adapter) = adapter
        /\ Len(published) < MaxMessages
        /\ published' = Append(published, channelName)
        /\ subscribers' =
               [s \in DOMAIN subscribers |->
                   [subscribers[s] EXCEPT
                       !.received = @ \o Repeat(message.id, calls * Deliveries(s, message))]]
        /\ channelModels' =
               [o \in DOMAIN channelModels |->
                   [channelModels[o] EXCEPT
                       !.buffer =
                           IF BufferAfter(o, message) = @
                           THEN @
                           ELSE LastN(@ \o Repeat(message.id, calls),
                                      channelModels[o].cacheSize)]]
        /\ inbound' = [adapterId |-> adapter, channelName |-> channelName,
                       id |-> message.id]
        /\ ret' = NoCall
        /\ UNCHANGED <<channelLookup, messagePublisher, handles, retired, scopeVars,
                       adapters, adapterSubscriptions, adapterCalls, adapterInfo, sent,
                       mergeVars, restVars>>

\* adapters that are registered under one id or under several, and emit
NextSameAdapter ==
    \/ \E c \in Channels, config \in AdapterConfigs : Create(c, config)
    \/ \E c \in Channels : SubscribeObserver(c)
    \/ \E h \in 1..MaxChannelModels : Publish(h)
    \/ RegisterAdapter
    \/ \E a \in 1..MaxAdapters : RegisterAdapterAgain(a)
    \/ \E a \in 1..MaxAdapters : ConnectSettled(a)
    \/ \E a \in 1..MaxAdapters, c \in InboundChannels : AdapterObjectEmits(a, c)

SpecSameAdapter == Init /\ [][NextSameAdapter]_vars

\* ------------------------------------------------------ error stream actions
\* broker.getErrorStream().subscribe(observer)
SubscribeErrorStream ==
    /\ Len(errorObservers) < MaxErrorObservers
    /\ errorObservers' = Append(errorObservers, [at |-> Len(errors), received |-> <<>>])
    /\ UNCHANGED <<flatVars, scopeVars, adapterVars, sent, mergeVars, errors, sends,
                   settled, invoked, callVars, responseVars>>

\* handle.publish(data), with the promises the sendMessage calls return
PublishSend(h) ==
    /\ h \in handles
    /\ Len(published) < MaxMessages
    /\ publishFunction(channelModels[h].channelName)
    /\ sends' = sends \cup {[adapterId |-> sent'[i].adapterId, id |-> sent'[i].id,
                              channelName |-> channelModels[h].channelName] :
                                 i \in DOMAIN sent'}
    /\ ret' = NoCall
    /\ UNCHANGED <<channelLookup, messagePublisher, handles, retired, scopeVars,
                   adapterVars, mergeVars, errorObservers, errors, settled, invoked, callVars,
                   responseVars>>

\* the promise of a sendMessage call resolves: nothing was chained to that
SendResolved(p) ==
    /\ p \in sends
    /\ sends' = sends \ {p}
    /\ settled' = [promise |-> "sendMessage", adapterId |-> p.adapterId,
                   channelName |-> p.channelName, message |-> p.id,
                   rejected |-> FALSE, error |-> ""]
    /\ UNCHANGED <<flatVars, scopeVars, adapterVars, sent, mergeVars, errorObservers,
                   errors, invoked, callVars, responseVars>>

\* a rejected sendMessage whose catch handler reports nothing
SendRejectedSilently(p, error) ==
    /\ p \in sends
    /\ Len(errors) < MaxErrors
    /\ sends' = sends \ {p}
    /\ settled' = [promise |-> "sendMessage", adapterId |-> p.adapterId,
                   channelName |-> p.channelName, message |-> p.id,
                   rejected |-> TRUE, error |-> error]
    /\ UNCHANGED <<flatVars, scopeVars, adapterVars, sent, mergeVars, errorObservers,
                   errors, invoked, callVars, responseVars>>

\* a rejected sendMessage that is reported and takes the adapter out of the
\* registry
SendRejectedUnregisters(p, error) ==
    /\ p \in sends
    /\ Len(errors) < MaxErrors
    /\ sends' = sends \ {p}
    /\ settled' = [promise |-> "sendMessage", adapterId |-> p.adapterId,
                   channelName |-> p.channelName, message |-> p.id,
                   rejected |-> TRUE, error |-> error]
    /\ errorStreamNext(IAdapterError(p.adapterId, p.channelName, p.id, error))
    /\ adapters' = adapters \ {p.adapterId}
    /\ UNCHANGED <<flatVars, scopeVars, adapterSubscriptions, adapterCalls, adapterInfo,
                   inbound, sent, mergeVars, invoked, callVars, responseVars>>

\* the promise of a sendMessage call rejects: the catch handler of
\* publishFunction hands a record to the error stream
SendRejected(p, error) ==
    /\ p \in sends
    /\ Len(errors) < MaxErrors
    /\ sends' = sends \ {p}
    /\ settled' = [promise |-> "sendMessage", adapterId |-> p.adapterId,
                   channelName |-> p.channelName, message |-> p.id,
                   rejected |-> TRUE, error |-> error]
    /\ errorStreamNext(IAdapterError(p.adapterId, p.channelName, p.id, error))
    /\ UNCHANGED <<flatVars, scopeVars, adapterVars, sent, mergeVars, invoked, callVars,
                   responseVars>>

\* a registerAdapter whose connect() rejects and that lets the rejection
\* through to its caller: nothing is reported, no id is returned, the inbound
\* stream is not subscribed to
ConnectRejectedThrows(adapterId, error) ==
    /\ [op |-> "registerAdapter", adapterId |-> adapterId] \in adapterCalls
    /\ Len(errors) < MaxErrors
    /\ adapterCalls' = adapterCalls \ {[op |-> "registerAdapter", adapterId |-> adapterId]}
    /\ settled' = [promise |-> "connect", adapterId |-> adapterId, channelName |-> "",
                   message |-> 0, rejected |-> TRUE, error |-> error]
    /\ UNCHANGED <<flatVars, scopeVars, adapters, adapterSubscriptions, adapterInfo,
                   inbound, sent, mergeVars, errorObservers, errors, sends, invoked, callVars,
                   responseVars>>

\* registerAdapter after its await when connect() rejected: the catch handler
\* hands a record to the error stream, then the call goes on as after a
\* connect() that resolved
ConnectRejected(adapterId, error) ==
    /\ [op |-> "registerAdapter", adapterId |-> adapterId] \in adapterCalls
    /\ Len(errors) < MaxErrors
    /\ errorStreamNext(IAdapterError(adapterId, "", 0, error))
    /\ adapterSubscriptions' = adapterSubscriptions \cup {adapterId}
    /\ adapterInfo' = [adapterInfo EXCEPT ![adapterId].streams = @ + 1,
                                          ![adapterId].registered = TRUE]
    /\ adapterCalls' = adapterCalls \ {[op |-> "registerAdapter", adapterId |-> adapterId]}
    /\ settled' = [promise |-> "connect", adapterId |-> adapterId, channelName |-> "",
                   message |-> 0, rejected |-> TRUE, error |-> error]
    /\ UNCHANGED <<flatVars, scopeVars, adapters, inbound, sent, mergeVars, sends,
                   invoked, callVars, responseVars>>

\* an unregisterAdapter whose disconnect() rejects and that lets the
\* rejection through to its caller: the adapter stays as it was
DisconnectRejectedThrows(adapterId, error) ==
    /\ [op |-> "unregisterAdapter", adapterId |-> adapterId] \in adapterCalls
    /\ adapterId \in adapters
    /\ Len(errors) < MaxErrors
    /\ errorStreamNext(IAdapterError(adapterId, "", 0, error))
    /\ adapterCalls' = adapterCalls \ {[op |-> "unregisterAdapter", adapterId |-> adapterId]}
    /\ settled' = [promise |-> "disconnect", adapterId |-> adapterId, channelName |-> "",
                   message |-> 0, rejected |-> TRUE, error |-> error]
    /\ UNCHANGED <<flatVars, scopeVars, adapters, adapterSubscriptions, adapterInfo,
                   inbound, sent, mergeVars, sends, invoked, callVars, responseVars>>

\* unregisterAdapter after its await when disconnect() rejected: the catch
\* handler hands a record to the error stream, then the call goes on as after
\* a disconnect() that resolved.  disconnect() was called, so the registry
\* has the id.
DisconnectRejected(adapterId, error) ==
    /\ [op |-> "unregisterAdapter", adapterId |-> adapterId] \in adapterCalls
    /\ adapterId \in adapters
    /\ Len(errors) < MaxErrors
    /\ errorStreamNext(IAdapterError(adapterId, "", 0, error))
    /\ adapterSubscriptions' = adapterSubscriptions \ {adapterId}
    /\ adapters' = adapters \ {adapterId}
    /\ adapterInfo' = [adapterInfo EXCEPT ![adapterId].unregistered = TRUE]
    /\ adapterCalls' = adapterCalls \ {[op |-> "unregisterAdapter", adapterId |-> adapterId]}
    /\ settled' = [promise |-> "disconnect", adapterId |-> adapterId, channelName |-> "",
                   message |-> 0, rejected |-> TRUE, error |-> error]
    /\ UNCHANGED <<flatVars, scopeVars, inbound, sent, mergeVars, sends, invoked, callVars,
                   responseVars>>

\* publishes to adapters whose sendMessage promises resolve or reject, with
\* observers of the error stream.  The adapters are in the registry from the
\* first step of registerAdapter on.
NextError ==
    \/ \E c \in Channels : Create(c, NoConfig)
    \/ \E c \in Channels : Subscribe(c)
    \/ \E h \in 1..MaxChannelModels : PublishSend(h)
    \/ \E p \in sends : SendResolved(p)
    \/ \E p \in sends, error \in Errors : SendRejected(p, error)
    \/ RegisterAdapter
    \/ SubscribeErrorStream

SpecError == Init /\ [][NextError]_vars

\* adapters whose connect() and disconnect() promises resolve or reject, with
\* observers of the error stream
NextConnect ==
    \/ RegisterAdapter
    \/ \E a \in 1..MaxAdapters : ConnectSettled(a)
    \/ \E a \in 1..MaxAdapters, error \in Errors : ConnectRejected(a, error)
    \/ \E a \in 1..MaxAdapters : UnregisterAdapter(a)
    \/ \E a \in 1..MaxAdapters : DisconnectSettled(a)
    \/ \E a \in 1..MaxAdapters, error \in Errors : DisconnectRejected(a, error)
    \/ SubscribeErrorStream

SpecConnect == Init /\ [][NextConnect]_vars

\* ------------------------------------ adapter actions of messagebroker.ts
\* broker.create(channelName, config)
CreateMerge(channelName, config) ==
    LET r == create(channelName, config)
    IN  /\ Len(r.channelModels) <= MaxChannelModels
        /\ channelModels' = r.channelModels
        /\ channelLookup' = r.channelLookup
        /\ messagePublisher' = r.messagePublisher
        /\ handles' = IF r.threw THEN handles ELSE handles \cup {r.channel}
        /\ ret' = [op |-> "create", channelName |-> channelName, config |-> config,
                   existing |-> channelLookup[channelName],
                   channel |-> r.channel, threw |-> r.threw]
        /\ MergeAdapterObservables(r, channelName)
        /\ UNCHANGED <<subscribers, published, retired, scopeVars, adapters,
                       adapterSubscriptions, adapterCalls, inbound, sent, restVars>>

\* broker.get(channelName).subscribe(observer): the observer subscribes to the
\* merge, that is to the filtered Subject and to every stream merged with it
SubscribeMerge(channelName) ==
    LET r == getDeferredObservable(channelName)
        o == r.channel
        s == Len(subscribers) + 1
        replay == r.channelModels[o].cacheSize > 0
    IN  /\ Len(subscribers) < MaxSubscribers
        /\ Len(r.channelModels) <= MaxChannelModels
        /\ channelLookup' = r.channelLookup
        /\ channelModels' =
               IF replay
               THEN [r.channelModels EXCEPT ![o].observers = Append(@, s)]
               ELSE r.channelModels
        /\ messagePublisher' =
               IF replay
               THEN r.messagePublisher
               ELSE Append(r.messagePublisher,
                           [kind |-> "filter", channelName |-> channelName, target |-> s])
        /\ subscribers' =
               Append(subscribers,
                      [channelName |-> channelName,
                       observable |-> o,
                       at |-> Len(published),
                       received |-> IF replay THEN r.channelModels[o].buffer ELSE <<>>,
                       created |-> channelLookup[channelName] = 0,
                       closed |-> FALSE])
        /\ ret' = NoCall
        /\ MergeAdapterObservables(r, channelName)
        /\ UNCHANGED <<published, handles, retired, scopeVars, adapters,
                       adapterSubscriptions, adapterCalls, inbound, sent, restVars>>

\* cleanupAdapterObservables(channelName)
cleanupAdapterObservables(channelName) ==
    [adapterObservables EXCEPT ![channelName] = {}]

\* broker.dispose(channelName)
DisposeMerge(channelName) ==
    LET r == dispose(channelName)
    IN  /\ channelModels' = r.channelModels
        /\ channelLookup' = r.channelLookup
        /\ adapterObservables' = cleanupAdapterObservables(channelName)
        /\ retired' =
               retired \cup {h \in handles : channelModels[h].channelName = channelName}
        /\ ret' = NoCall
        /\ UNCHANGED <<messagePublisher, subscribers, published, handles, scopeVars,
                       adapterVars, sent, adapterStreams, merged, restVars>>

\* broker.registerAdapter(adapter): the adapter is put in the registry under
\* a fresh id, which is returned
RegisterAdapterMerge ==
    LET id == Len(adapterInfo) + 1
    IN  /\ Len(adapterInfo) < MaxAdapters
        /\ adapters' = adapters \cup {id}
        /\ adapterInfo' = Append(adapterInfo, [NewAdapter EXCEPT !.registered = TRUE])
        /\ UNCHANGED <<flatVars, scopeVars, adapterSubscriptions, adapterCalls, inbound,
                       sent, mergeVars, restVars>>

\* broker.unregisterAdapter(adapterId): the id leaves the registry, the cache
\* of raw streams and the filtered streams of every channel name
UnregisterAdapterMerge(adapterId) ==
    /\ adapterId \in DOMAIN adapterInfo
    /\ adapters' = adapters \ {adapterId}
    /\ adapterStreams' = adapterStreams \ {adapterId}
    /\ adapterObservables' = [c \in Channels |-> adapterObservables[c] \ {adapterId}]
    /\ adapterInfo' = [adapterInfo EXCEPT ![adapterId].unregistered = TRUE]
    /\ UNCHANGED <<flatVars, scopeVars, adapterSubscriptions, adapterCalls, inbound, sent,
                   merged, restVars>>

\* the raw stream of an adapter emits a message for channelName: it reaches
\* the observers of the observables the stream was merged into
AdapterStreamEmits(adapterId, channelName) ==
    LET message == [id |-> Len(published) + 1, channelName |-> channelName]
    IN  /\ adapterId \in DOMAIN adapterInfo
        /\ Len(published) < MaxMessages
        /\ published' = Append(published, channelName)
        /\ subscribers' =
               [s \in DOMAIN subscribers |->
                   [subscribers[s] EXCEPT
                       !.received =
                           @ \o Repeat(message.id, InboundDeliveries(adapterId, s, message))]]
        /\ channelModels' =
               [o \in DOMAIN channelModels |->
                   [channelModels[o] EXCEPT
                       !.buffer = InboundBufferAfter(adapterId, o, message)]]
        /\ inbound' = [adapterId |-> adapterId, channelName |-> channelName,
                       id |-> message.id]
        /\ ret' = NoCall
        /\ UNCHANGED <<channelLookup, messagePublisher, handles, retired, scopeVars,
                       adapters, adapterSubscriptions, adapterCalls, adapterInfo, sent,
                       mergeVars, restVars>>

\* the adapter broker of messagebroker.ts with adapters that register,
\* unregister and emit in any order
NextMerge ==
    \/ \E c \in Channels, config \in AdapterConfigs : CreateMerge(c, config)
    \/ \E c \in Channels : SubscribeMerge(c)
    \/ \E h \in 1..MaxChannelModels : Publish(h)
    \/ \E c \in Channels : DisposeMerge(c)
    \/ RegisterAdapterMerge
    \/ \E a \in 1..MaxAdapters : UnregisterAdapterMerge(a)
    \/ \E a \in 1..MaxAdapters, c \in InboundChannels : AdapterStreamEmits(a, c)

SpecMerge == Init /\ [][NextMerge]_vars

\* ---------------------------------------------------- ResponseBroker actions
\* responseBroker.registerResponder(channelName, handler)
RegisterResponder(channelName) ==
    LET id == Len(responderRefs) + 1
    IN  /\ Len(responderRefs) < MaxResponders
        /\ responders' = [responders EXCEPT ![channelName] = Append(@, id)]
        /\ responderRefs' = Append(responderRefs,
                                   [channelName |-> channelName, disconnects |-> 0])
        /\ UNCHANGED <<flatVars, scopeVars, adapterVars, sent, mergeVars, errorVars,
                       invoked, callVars, collated>>

\* responseBroker.collate(channelName, payload)
Collate(channelName, payload) ==
    /\ collated' = collate(channelName, payload)
    /\ UNCHANGED <<flatVars, scopeVars, adapterVars, sent, mergeVars, errorVars,
                   invoked, callVars, responders, responderRefs>>

\* responderRef.disconnect(), on any reference ever handed out, at most
\* MaxDisconnects times on each
Disconnect(id) ==
    /\ id \in DOMAIN responderRefs
    /\ responderRefs[id].disconnects < MaxDisconnects
    /\ responders' = disconnect(responderRefs[id].channelName, id)
    /\ responderRefs' = [responderRefs EXCEPT ![id].disconnects = @ + 1]
    /\ UNCHANGED <<flatVars, scopeVars, adapterVars, sent, mergeVars, errorVars,
                   invoked, callVars, collated>>

NextResponse ==
    \/ \E c \in ResponseChannels : RegisterResponder(c)
    \/ \E c \in ResponseChannels, payload \in Payloads : Collate(c, payload)
    \/ \E id \in 1..MaxResponders : Disconnect(id)

SpecResponse == Init /\ [][NextResponse]_vars

\* -------------------------------------------------------- scope tree actions
\* instance.createScope(scopeName)
CreateScope(b, scopeName) ==
    LET r == createScope(scopeState, b, scopeName)
    IN  /\ b \in DOMAIN scopes
        /\ Len(r.scopes) <= MaxScopes
        /\ scopes' = r.scopes
        /\ scopeRet' = [op |-> "createScope", scope |-> b, scopeName |-> scopeName,
                        instance |-> r.instance]
        /\ UNCHANGED <<scopeSubscribers, scopePublished>>
        /\ UNCHANGED <<flatVars, adapterVars, sent, mergeVars, restVars>>

\* instance.create(channelName, config)
CreateInScope(b, channelName, config) ==
    LET r == createInScope(scopeState, b, channelName, config)
    IN  /\ b \in DOMAIN scopes
        /\ scopes' = r.scopes
        /\ scopeRet' = NoScopeCall
        /\ UNCHANGED <<scopeSubscribers, scopePublished>>
        /\ UNCHANGED <<flatVars, adapterVars, sent, mergeVars, restVars>>

\* instance.get(channelName).subscribe(observer): a shareReplay observable hands
\* the observer its buffer
SubscribeInScope(b, channelName) ==
    LET r == getDeferredObservableInScope(scopeState, b, channelName)
    IN  /\ b \in DOMAIN scopes
        /\ Len(scopeSubscribers) < MaxScopeSubscribers
        /\ scopes' = r.scopes
        /\ scopeSubscribers' =
               Append(scopeSubscribers,
                      [scope |-> b,
                       channelName |-> channelName,
                       received |-> r.scopes[b].channelLookup[channelName].buffer])
        /\ scopeRet' = NoScopeCall
        /\ UNCHANGED scopePublished
        /\ UNCHANGED <<flatVars, adapterVars, sent, mergeVars, restVars>>

\* handle.publish(data) on the handle of the channel model instance b has for
\* the name (create(channelName) returns it); the handle of a channel model that
\* was disposed of publishes the same way, for publishFunction reads the
\* children and the Subject of the instance only
PublishInScope(b, channelName) ==
    LET r == publishFunctionInScope(scopeState, b, channelName, Len(scopePublished) + 1)
    IN  /\ b \in DOMAIN scopes
        /\ scopes[b].channelLookup[channelName].present
        /\ Len(scopePublished) < MaxScopeMessages
        /\ scopes' = r.scopes
        /\ scopeSubscribers' = r.scopeSubscribers
        /\ scopePublished' =
               Append(scopePublished,
                      [scope |-> b, channelName |-> channelName, parent |-> scopes[b].parent])
        /\ scopeRet' = NoScopeCall
        /\ UNCHANGED <<flatVars, adapterVars, sent, mergeVars, restVars>>

\* instance.dispose(channelName)
DisposeInScope(b, channelName) ==
    LET r == disposeInScope(scopeState, b, channelName)
    IN  /\ b \in DOMAIN scopes
        /\ scopes' = r.scopes
        /\ scopeRet' = NoScopeCall
        /\ UNCHANGED <<scopeSubscribers, scopePublished>>
        /\ UNCHANGED <<flatVars, adapterVars, sent, mergeVars, restVars>>

\* instance.destroy()
Destroy(b) ==
    LET r == destroy(scopeState, b)
    IN  /\ b \in DOMAIN scopes
        /\ scopes' = r.scopes
        /\ scopeRet' = NoScopeCall
        /\ UNCHANGED <<scopeSubscribers, scopePublished>>
        /\ UNCHANGED <<flatVars, adapterVars, sent, mergeVars, restVars>>

\* instance.dispose(channelName), with the keepalive subscriptions it
\* unsubscribes recorded
DisposeRecorded(b, channelName) ==
    LET r == disposeInScope(scopeState, b, channelName)
    IN  /\ b \in DOMAIN scopes
        /\ scopes' = r.scopes
        /\ scopeRet' = NoScopeCall
        /\ scopeDisposed' = [scope |-> b, channelName |-> channelName,
                             unsubscribed |-> keepAlivesUnsubscribed(scopeState, b, channelName)]
        /\ UNCHANGED <<scopeSubscribers, scopePublished>>
        /\ UNCHANGED <<flatVars, adapterVars, sent, mergeVars, errorVars, invoked,
                       responseVars, streams, adapterObjects, scopeMessages>>

NextScope ==
    \/ \E b \in 1..MaxScopes, scopeName \in ScopeNames : CreateScope(b, scopeName)
    \/ \E b \in 1..MaxScopes, c \in Channels, config \in ScopeConfigs :
           CreateInScope(b, c, config)
    \/ \E b \in 1..MaxScopes, c \in Channels : SubscribeInScope(b, c)
    \/ \E b \in 1..MaxScopes, c \in Channels : PublishInScope(b, c)
    \/ \E b \in 1..MaxScopes, c \in Channels : DisposeInScope(b, c)
    \/ \E b \in 1..MaxScopes : Destroy(b)

SpecScope == Init /\ [][NextScope]_vars

\* handle.publish(data, type) on the handle of the channel model instance b
\* has for the name, with the messages it makes recorded
PublishTyped(b, channelName, data, type) ==
    LET r == publishFunctionInScope(scopeState, b, channelName, Len(scopePublished) + 1)
    IN  /\ b \in DOMAIN scopes
        /\ scopes[b].channelLookup[channelName].present
        /\ Len(scopePublished) < MaxScopeMessages
        /\ scopes' = r.scopes
        /\ scopeSubscribers' = r.scopeSubscribers
        /\ scopePublished' =
               Append(scopePublished,
                      [scope |-> b, channelName |-> channelName, parent |-> scopes[b].parent])
        /\ scopeRet' = NoScopeCall
        /\ scopeMessages' = messagesCreated(scopeState, b, data, type)
        /\ UNCHANGED <<flatVars, adapterVars, sent, mergeVars, errorVars, invoked,
                       responseVars, streams, adapterObjects, scopeDisposed>>

\* the scope tree with publish calls that carry data and a type
NextTyped ==
    \/ \E b \in 1..MaxScopes, scopeName \in ScopeNames : CreateScope(b, scopeName)
    \/ \E b \in 1..MaxScopes, c \in Channels, config \in ScopeConfigs :
           CreateInScope(b, c, config)
    \/ \E b \in 1..MaxScopes, c \in Channels : SubscribeInScope(b, c)
    \/ \E b \in 1..MaxScopes, c \in Channels, data \in ScopeData, type \in ScopeTypes :
           PublishTyped(b, c, data, type)

SpecTyped == Init /\ [][NextTyped]_vars

\* the scope tree with dispose calls whose unsubscribes are recorded
NextCascade ==
    \/ \E b \in 1..MaxScopes, scopeName \in ScopeNames : CreateScope(b, scopeName)
    \/ \E b \in 1..MaxScopes, c \in Channels, config \in ScopeConfigs :
           CreateInScope(b, c, config)
    \/ \E b \in 1..MaxScopes, c \in Channels : PublishInScope(b, c)
    \/ \E b \in 1..MaxScopes, c \in Channels : DisposeRecorded(b, c)

SpecCascade == Init /\ [][NextCascade]_vars

\* ------------------------------------------------------------------- claims
\* the ids of the messages published on the name after message `after`, up to
\* message `upTo`, in publish order
MessagesOn(channelName, after, upTo) ==
    SelectSeq([i \in 1..Len(published) |-> i],
              LAMBDA i : published[i] = channelName /\ i > after /\ i <= upTo)

Model(s) == channelModels[subscribers[s].observable]

\* what an observer subscribing to the name now would be handed at once
ReplayOnAttach(channelName) ==
    IF channelLookup[channelName] = 0
    THEN <<>>
    ELSE channelModels[channelLookup[channelName]].buffer

\* the last call was create with a cache size, on a name whose model was caching
\* with that same size
SameSizeCreate(call) ==
    /\ call.op = "create"
    /\ call.existing # 0
    /\ Truthy(call.config.replayCacheSize)
    /\ channelModels[call.existing].subscription # "none"
    /\ isCacheSizeEqual(channelModels[call.existing].config, call.config)

\* C1: a subscriber attaching to a channel created with replayCacheSize = N,
\* after M >= N messages were published on it, has received exactly the last N
\* of them in publish order and then every message published since, whatever
\* create, get and publish calls were made on the channel.
C1_ReplayLastNThenLive ==
    \A s \in DOMAIN subscribers :
        LET m == Model(s)
            n == m.config.replayCacheSize
            before == MessagesOn(subscribers[s].channelName, m.since, subscribers[s].at)
        IN  (m.config.defined /\ n # Undefined /\ Len(before) >= n)
            => subscribers[s].received =
                   LastN(before, n) \o
                   MessagesOn(subscribers[s].channelName, subscribers[s].at, Len(published))

\* C2: an observer that subscribed to get(name) when the name had no channel
\* has received every message published on the name since, each exactly once:
\* one message after create(name) and one publish.
C2_SubscribeBeforeCreate ==
    \A s \in DOMAIN subscribers :
        subscribers[s].created
        => subscribers[s].received =
               MessagesOn(subscribers[s].channelName, subscribers[s].at, Len(published))

C2_Witness ==
    \E s \in DOMAIN subscribers :
        /\ subscribers[s].created
        /\ channelLookup[subscribers[s].channelName] \in handles
        /\ MessagesOn(subscribers[s].channelName, subscribers[s].at, Len(published))
               = <<subscribers[s].at + 1>>
        /\ subscribers[s].received = <<subscribers[s].at + 1>>

\* C3: on a channel created without a cache size, no message published before
\* an observer subscribed is ever delivered to it.
C3_NoReplayWithoutCache ==
    \A s \in DOMAIN subscribers :
        ~Truthy(Model(s).config.replayCacheSize)
        => \A i \in DOMAIN subscribers[s].received :
               subscribers[s].received[i] > subscribers[s].at

C3_Witness ==
    \E s \in DOMAIN subscribers :
        /\ ~Model(s).config.defined
        /\ MessagesOn(subscribers[s].channelName, 0, subscribers[s].at) # <<>>
        /\ subscribers[s].received # <<>>

\* C4: create(name, config) on a name created with a config of a different
\* replayCacheSize (0 and a config without size included) throws.
C4_DifferentSizeThrows ==
    (/\ ret.op = "create"
     /\ ret.existing # 0
     /\ ret.config.defined
     /\ channelModels[ret.existing].config.defined
     /\ ~isCacheSizeEqual(channelModels[ret.existing].config, ret.config))
    => ret.threw

\* C5: a second create(name, {replayCacheSize: N}) with the same N does not
\* throw and leaves the replay as it was: an observer subscribing after it is
\* handed the messages cached before it.
C5_SameSizeCreateKeepsReplay ==
    [][\A c \in Channels :
          (SameSizeCreate(ret') /\ ret'.channelName = c)
          => (~ret'.threw /\ ReplayOnAttach(c)' = ReplayOnAttach(c))]_vars

\* C6: create(name, {replayCacheSize: N}) on a name caching with the same N
\* returns the handle the name already had.
C6_SameSizeCreateReturnsExisting ==
    SameSizeCreate(ret) => ret.channel = ret.existing

\* C7: create(name) without config on a name that has a channel model returns
\* that model's handle and leaves the lookup, every channel model (config,
\* replay buffer, keepalive subscription) and the Subject's observers as they
\* were.
C7_CreateWithoutConfigIsFrameOnly ==
    [][(ret'.op = "create" /\ ~ret'.config.defined /\ ret'.existing # 0)
       => (/\ ret'.channel = ret'.existing
           /\ ~ret'.threw
           /\ UNCHANGED <<channelLookup, channelModels, messagePublisher>>)]_vars

C7_Witness ==
    /\ ret.op = "create"
    /\ ~ret.config.defined
    /\ ret.existing # 0
    /\ channelModels[ret.existing].subscription = "open"
    /\ channelModels[ret.existing].buffer # <<>>

\* a channel model built by create with a cache size on a name whose model had
\* no config
IsUpgrade(u) ==
    /\ channelModels[u].replaces # 0
    /\ ~channelModels[channelModels[u].replaces].config.defined
    /\ Truthy(channelModels[u].config.replayCacheSize)

\* C8: an observer that subscribed before a channel was upgraded from no
\* config to a cache config has received every message published after the
\* upgrade, in publish order.
C8_UpgradeKeepsSubscribers ==
    \A u \in DOMAIN channelModels, s \in DOMAIN subscribers :
        (/\ IsUpgrade(u)
         /\ subscribers[s].channelName = channelModels[u].channelName
         /\ subscribers[s].observable < u)
        => SelectSeq(subscribers[s].received, LAMBDA i : i > channelModels[u].since)
               = MessagesOn(channelModels[u].channelName, channelModels[u].since,
                            Len(published))

C8_Witness ==
    \E u \in DOMAIN channelModels, s \in DOMAIN subscribers :
        /\ IsUpgrade(u)
        /\ subscribers[s].channelName = channelModels[u].channelName
        /\ subscribers[s].observable < u
        /\ Len(MessagesOn(channelModels[u].channelName, channelModels[u].since,
                          Len(published))) >= 2

\* the name of the observer's channel was disposed after the observer subscribed
DisposedSince(s) ==
    \E m \in DOMAIN channelModels :
        /\ m >= subscribers[s].observable
        /\ channelModels[m].channelName = subscribers[s].channelName
        /\ channelModels[m].disposed

\* C9: an observer that subscribed to a channel before dispose(name) receives
\* no message published on the name after the dispose.
C9_DisposeEndsSubscriptions ==
    [][\A s \in DOMAIN subscribers :
          DisposedSince(s) => subscribers'[s].received = subscribers[s].received]_vars

\* C10: after dispose(name), create(name) returns a handle that is none of the
\* handles returned for the name before the dispose.
C10_CreateAfterDisposeIsFresh ==
    (ret.op = "create" /\ ~ret.threw) => ret.channel \notin retired

C10_Witness ==
    /\ ret.op = "create"
    /\ ~ret.threw
    /\ ret.existing = 0
    /\ \E h \in retired : channelModels[h].channelName = ret.channelName

\* --------------------------------------------------------- scope tree claims
Range(seq) == {seq[i] : i \in DOMAIN seq}

\* the observers instance b has on the name
ObserversOf(b, channelName) ==
    {s \in DOMAIN scopeSubscribers :
        scopeSubscribers[s].scope = b /\ scopeSubscribers[s].channelName = channelName}

\* the step is a publish call; LastPublished is the call and its number is the
\* message's id
IsPublishInScope == Len(scopePublished') = Len(scopePublished) + 1

LastPublished == scopePublished'[Len(scopePublished')]

\* instance i gets nothing from the step: its observers receive nothing and its
\* channel models cache nothing
Untouched(i) ==
    /\ \A s \in DOMAIN scopeSubscribers :
           scopeSubscribers[s].scope = i => scopeSubscribers'[s] = scopeSubscribers[s]
    /\ scopes'[i].channelLookup = scopes[i].channelLookup

\* the instance that has b among its children, 0 for the root
ParentByChildren(b) ==
    LET holders == {q \in DOMAIN scopes :
                       \E i \in DOMAIN scopes[q].children : scopes[q].children[i].instance = b}
    IN  IF holders = {} THEN 0 ELSE CHOOSE q \in holders : TRUE

\* C11: a publish on a channel of a child scope that has no observer of its own
\* on the name is received by every observer the parent scope has on the name.
C11_ChildPublishReachesParent ==
    [][IsPublishInScope =>
          LET b == LastPublished.scope
              channelName == LastPublished.channelName
          IN  (scopes[b].parent # 0 /\ ObserversOf(b, channelName) = {})
              => \A s \in ObserversOf(scopes[b].parent, channelName) :
                     Len(scopePublished') \in Range(scopeSubscribers'[s].received)]_vars

\* C12: a publish on a channel of a child scope that has an observer of its own
\* on the name is delivered to each of these observers, once, and nothing of it
\* reaches the parent scope: no observer of the parent receives it and no
\* channel model of the parent caches it.
C12_HandledOnChildStaysOnChild ==
    [][IsPublishInScope =>
          LET b == LastPublished.scope
              channelName == LastPublished.channelName
          IN  (scopes[b].parent # 0 /\ ObserversOf(b, channelName) # {})
              => /\ \A s \in ObserversOf(b, channelName) :
                        scopeSubscribers'[s].received =
                            Append(scopeSubscribers[s].received, Len(scopePublished'))
                 /\ Untouched(scopes[b].parent)]_vars

C12_Witness ==
    \E k \in DOMAIN scopePublished, s \in DOMAIN scopeSubscribers, p \in DOMAIN scopeSubscribers :
        /\ scopePublished[k].parent # 0
        /\ scopeSubscribers[s].scope = scopePublished[k].scope
        /\ scopeSubscribers[s].channelName = scopePublished[k].channelName
        /\ k \in Range(scopeSubscribers[s].received)
        /\ scopeSubscribers[p].scope = scopePublished[k].parent
        /\ scopeSubscribers[p].channelName = scopePublished[k].channelName
        /\ scopeSubscribers[p].received = <<>>

\* the other children of the instances that have b among their children
Siblings(b) ==
    {i \in DOMAIN scopes :
        /\ i # b
        /\ ParentByChildren(i) # 0
        /\ ParentByChildren(i) = ParentByChildren(b)}

\* C13: nothing of a publish on a channel of a scope reaches a sibling scope
\* (another child of the same parent): no observer of the sibling receives it.
C13_NothingReachesSiblings ==
    [][IsPublishInScope => \A i \in Siblings(LastPublished.scope) : Untouched(i)]_vars

C13_Witness ==
    \E k \in DOMAIN scopePublished, s \in DOMAIN scopeSubscribers, p \in DOMAIN scopeSubscribers :
        /\ scopeSubscribers[s].scope = scopePublished[k].scope
        /\ scopeSubscribers[s].channelName = scopePublished[k].channelName
        /\ k \in Range(scopeSubscribers[s].received)
        /\ scopeSubscribers[p].scope \in Siblings(scopePublished[k].scope)
        /\ scopeSubscribers[p].channelName = scopePublished[k].channelName
        /\ scopeSubscribers[p].received = <<>>

\* the step is a createScope call
IsCreateScope == scopeRet'.op = "createScope" /\ scopeRet' # scopeRet

\* the instances createScope calls on instance b have returned so far
ReturnedBefore(b) == {scopes[b].children[i].instance : i \in DOMAIN scopes[b].children}

\* C14: a scope name maps to at most one child of an instance: the child list
\* of an instance never has two entries of one name, and createScope with a name
\* the instance has a child for returns that child and adds no instance.
C14_OneChildPerScopeName ==
    /\ [](\A b \in DOMAIN scopes :
             \A i, j \in DOMAIN scopes[b].children :
                 scopes[b].children[i].name = scopes[b].children[j].name => i = j)
    /\ [][IsCreateScope =>
             LET existing == existingScope(scopeState, scopeRet'.scope, scopeRet'.scopeName)
             IN  existing # 0 => (scopeRet'.instance = existing /\ scopes' = scopes)]_vars

C14_Witness ==
    /\ scopeRet.op = "createScope"
    /\ \E i \in DOMAIN scopes[scopeRet.scope].children :
           /\ scopes[scopeRet.scope].children[i].instance = scopeRet.instance
           /\ scopes[scopeRet.scope].children[i].name = scopeRet.scopeName
           /\ i < Len(scopes[scopeRet.scope].children)

IsPublish == Len(published') = Len(published) + 1 /\ inbound' = inbound

\* the step is an emission of an adapter's inbound stream
IsEmission == inbound'.id = Len(published) + 1

\* what subscriber s is handed by the step
Handed(s) == SubSeq(subscribers'[s].received, Len(subscribers[s].received) + 1,
                    Len(subscribers'[s].received))

\* C17: a publish call while the registry holds N adapters makes exactly N
\* sendMessage invocations, one for each adapter of the registry, and every
\* one of them carries the id of the message the call hands to the local
\* subscribers.
C17_OneSendMessagePerAdapter ==
    [][IsPublish =>
           /\ Len(sent') = Cardinality(adapters)
           /\ \A a \in adapters :
                  Cardinality({i \in DOMAIN sent' : sent'[i].adapterId = a}) = 1
           /\ \A i \in DOMAIN sent' : sent'[i].id = Len(published')
           /\ \A s \in DOMAIN subscribers :
                  \A i \in DOMAIN Handed(s) : Handed(s)[i] = Len(published')]_vars

\* a publish with two adapters in the registry was sent to both and handed to
\* a local subscriber
C17_Witness ==
    /\ Len(sent) = 2
    /\ sent[1].adapterId # sent[2].adapterId
    /\ \E s \in DOMAIN subscribers : sent[1].id \in Range(subscribers[s].received)

\* a registerAdapter call with the adapter has returned its id and no
\* unregisterAdapter call with that id has returned
Registered(adapterId) ==
    adapterInfo[adapterId].registered /\ ~adapterInfo[adapterId].unregistered

\* the open subscribers of a channel name
SubscribersOf(channelName) ==
    {s \in DOMAIN subscribers :
        ~subscribers[s].closed /\ subscribers[s].channelName = channelName}

\* C18: a message the inbound stream of a registered adapter emits is handed
\* to every current subscriber of the channel the message names, whether the
\* channel and the subscription are older or newer than the registration.
C18_InboundReachesSubscribers ==
    [][IsEmission /\ Registered(inbound'.adapterId) =>
           \A s \in SubscribersOf(inbound'.channelName) :
               inbound'.id \in Range(Handed(s))]_vars

\* C19: once an unregisterAdapter call with the id of an adapter has returned,
\* no message the inbound stream of that adapter emits is handed to a local
\* subscriber or kept for one, however the registerAdapter and
\* unregisterAdapter calls interleave.
C19_NothingAfterUnregister ==
    [][IsEmission /\ adapterInfo[inbound'.adapterId].unregistered =>
           /\ \A s \in DOMAIN subscribers : Handed(s) = <<>>
           /\ \A o \in DOMAIN channelModels :
                  channelModels'[o].buffer = channelModels[o].buffer]_vars

\* C20: the broker invokes getMessageStream of a registered adapter at most
\* once, however often a channel model is built for a channel name: by
\* repeated create calls, by the upgrade of a channel to a caching one, by a
\* create after a dispose.
C20_GetMessageStreamOnce ==
    \A adapterId \in DOMAIN adapterInfo : adapterInfo[adapterId].streams <= 1

\* an adapter whose stream was merged into a channel model and, after the
\* dispose of the name, into the next one, and was asked for once
C20_Witness ==
    \E adapterId \in DOMAIN adapterInfo :
        /\ Registered(adapterId)
        /\ adapterInfo[adapterId].streams = 1
        /\ Len(merged) = 2
        /\ adapterId \in merged[1] \cap merged[2]
        /\ channelModels[1].disposed

\* the same for an upgrade: the stream is in the channel model without cache
\* and in the caching one that replaced it
C20_UpgradeWitness ==
    \E adapterId \in DOMAIN adapterInfo :
        /\ Registered(adapterId)
        /\ adapterInfo[adapterId].streams = 1
        /\ Len(merged) = 2
        /\ adapterId \in merged[1] \cap merged[2]
        /\ channelModels[1].cacheSize = 0
        /\ channelModels[2].cacheSize > 0
        /\ channelModels[2].replaces = 1

\* ------------------------------------------------------ ResponseBroker claims
\* the responders registered on a channel name whose reference was never
\* disconnected, in the order they were registered in
CurrentResponders(channelName) ==
    SelectSeq([id \in DOMAIN responderRefs |-> id],
              LAMBDA id : /\ responderRefs[id].channelName = channelName
                          /\ responderRefs[id].disconnects = 0)

\* C28: collate(channel, payload) runs the handler of every responder that is
\* registered on the channel at that moment, once each with the payload, and
\* returns their replies in the order of registration: nothing for a channel
\* without responder, and no responder of another channel runs.
C28_CollateRunsRegisteredResponders ==
    [][collated' # collated =>
           LET current == CurrentResponders(collated'.channelName)
           IN  /\ collated'.executed = current
               /\ collated'.replies =
                      [i \in DOMAIN current |-> <<current[i], collated'.payload>>]]_vars

\* the step is a disconnect() on the reference of responder id
IsDisconnect(id) ==
    /\ id \in DOMAIN responderRefs
    /\ responderRefs'[id].disconnects = responderRefs[id].disconnects + 1

\* C29: disconnect() on a responder reference takes that responder out of
\* its list and nothing else, the first time and every time after: the other
\* responders keep their places on every channel.
C29_DisconnectRemovesOnlyItself ==
    [][\A id \in DOMAIN responderRefs :
           IsDisconnect(id) =>
               responders' =
                   [c \in ResponseChannels |-> SelectSeq(responders[c], LAMBDA r : r # id)]]_vars

\* ------------------------------------------------------------ registry claims
\* C30: every channel model the lookup holds that has a config has an open
\* keepalive subscription, whatever config create was given.
C30_ConfigMeansKeepAlive ==
    \A c \in Channels :
        (channelLookup[c] # 0 /\ channelModels[channelLookup[c]].config.defined)
            => channelModels[channelLookup[c]].subscription = "open"

\* the open subscribers of a channel name, in the order they subscribed in
InSubscriptionOrder(channelName) ==
    SelectSeq([s \in DOMAIN subscribers |-> s], LAMBDA s : s \in SubscribersOf(channelName))

\* C26: when a publish call returns, every observer that was subscribed to the
\* channel when it was made has been invoked with the message, and they were
\* invoked in the order they subscribed in, also when an upgrade of the
\* channel to a caching one lies between their subscriptions.
C26_InvokedInSubscriptionOrder ==
    [][IsPublish =>
           LET id == Len(published')
           IN  /\ invoked' = InSubscriptionOrder(published'[id])
               /\ \A s \in SubscribersOf(published'[id]) : Handed(s) = <<id>>]_vars

\* two observers were invoked in order, the first subscribed to the channel
\* without cache, the second to the caching channel model that replaced it
C26_Witness ==
    /\ invoked = <<1, 2>>
    /\ channelModels[subscribers[1].observable].cacheSize = 0
    /\ channelModels[subscribers[2].observable].cacheSize > 0
    /\ channelModels[subscribers[2].observable].replaces = subscribers[1].observable
    /\ Len(published) \in Range(subscribers[1].received)
    /\ Len(published) \in Range(subscribers[2].received)

\* the step is the unsubscribe of subscriber s
IsUnsubscribe(s) == ~subscribers[s].closed /\ subscribers'[s].closed

\* C27: an observer that has unsubscribed is handed nothing any more; its
\* unsubscribe leaves every other observer, every keepalive subscription and
\* every replay buffer as they are; so every publish still reaches every
\* other subscriber of the channel and the buffer of every caching channel
\* model that is kept alive.
C27_UnsubscribeStopsOnlyThatObserver ==
    [][/\ \A s \in DOMAIN subscribers :
              subscribers[s].closed => subscribers'[s].received = subscribers[s].received
       /\ \A s \in DOMAIN subscribers :
              IsUnsubscribe(s) =>
                  /\ \A u \in DOMAIN subscribers \ {s} : subscribers'[u] = subscribers[u]
                  /\ \A o \in DOMAIN channelModels :
                         channelModels'[o] =
                             [channelModels[o] EXCEPT !.observers = Without(@, s)]
                  /\ \A i \in DOMAIN messagePublisher :
                         messagePublisher[i].target # s \/ messagePublisher[i].kind = "replay"
                             => \E j \in DOMAIN messagePublisher' :
                                    messagePublisher'[j] = messagePublisher[i]
                  /\ channelLookup' = channelLookup
       /\ IsPublish =>
              LET id == Len(published')
              IN  /\ \A s \in SubscribersOf(published'[id]) : id \in Range(Handed(s))
                  /\ \A o \in DOMAIN channelModels :
                         (/\ channelModels[o].subscription = "open"
                          /\ channelModels[o].channelName = published'[id])
                             => channelModels'[o].buffer =
                                    LastN(Append(channelModels[o].buffer, id),
                                          channelModels[o].cacheSize)]_vars

\* an observer unsubscribed from a caching channel; the message published
\* after that reached the other observer and the buffer, and not the one
\* that unsubscribed
C27_Witness ==
    \E s, u \in DOMAIN subscribers :
        /\ subscribers[s].closed
        /\ ~subscribers[u].closed
        /\ subscribers[s].observable = subscribers[u].observable
        /\ Len(published) > 0
        /\ Len(published) \notin Range(subscribers[s].received)
        /\ Len(published) \in Range(subscribers[u].received)
        /\ Len(published) \in Range(channelModels[subscribers[u].observable].buffer)

\* -------------------------------------------------------- error stream claims
\* the step is the settling of a promise of the given kind
IsSettled(promise) == settled' # settled /\ settled'.promise = promise

\* the record the error stream owes to the promise that settled in the step
Owed ==
    [adapterId |-> settled'.adapterId, channelName |-> settled'.channelName,
     message |-> settled'.message, error |-> settled'.error, timestamp |-> TRUE]

\* C21: a sendMessage promise that rejects puts one record on the error
\* stream, with the id of the adapter, the channel name, the published
\* message and the reason of the rejection; one that resolves puts none; no
\* (adapter, message) pair ever has two records, and every record names the
\* channel its message was published on.
C21_OneRecordPerRejectedSend ==
    /\ [](\A i, j \in DOMAIN errors :
              (errors[i].message # 0 /\ errors[i].message = errors[j].message
                  /\ errors[i].adapterId = errors[j].adapterId) => i = j)
    /\ [](\A i \in DOMAIN errors :
              errors[i].message # 0 => published[errors[i].message] = errors[i].channelName)
    /\ [][/\ (IsSettled("sendMessage") /\ settled'.rejected)
                 => errors' = Append(errors, Owed)
          /\ (IsSettled("sendMessage") /\ ~settled'.rejected)
                 => (errors' = errors /\ errorObservers' = errorObservers)
          /\ ~IsSettled("sendMessage") => errors' = errors]_vars

\* an observer of the error stream holds the record of a rejected send of a
\* published message
C21_Witness ==
    \E o \in DOMAIN errorObservers, i \in DOMAIN errors :
        /\ errors[i].message \in DOMAIN published
        /\ errors[i].adapterId \in adapters
        /\ errors[i].error \in Errors
        /\ errors[i] \in Range(errorObservers[o].received)

\* C22: a sendMessage promise that rejects touches neither the subscribers
\* nor the registry nor the other promises; and every publish call, whatever
\* has been rejected before, hands the message to every subscriber of the
\* channel and calls sendMessage once on every adapter of the registry.
C22_SendFailuresAreIsolated ==
    [][/\ (IsSettled("sendMessage") /\ settled'.rejected) =>
              /\ subscribers' = subscribers
              /\ channelModels' = channelModels
              /\ adapters' = adapters
              /\ sent' = sent
              /\ sends' = sends \ {[adapterId |-> settled'.adapterId,
                                     id |-> settled'.message,
                                     channelName |-> settled'.channelName]}
       /\ IsPublish =>
              LET id == Len(published')
              IN  /\ \A s \in SubscribersOf(published'[id]) : Handed(s) = <<id>>
                  /\ Len(sent') = Cardinality(adapters)
                  /\ \A a \in adapters :
                         /\ \E i \in DOMAIN sent' : sent'[i] = [adapterId |-> a, id |-> id]
                         /\ [adapterId |-> a, id |-> id, channelName |-> published'[id]]
                                \in sends']_vars

\* the send of a message to one adapter was rejected; the message reached a
\* subscriber and was sent to the other adapter as well; and the adapter
\* whose send was rejected was sent the next message
C22_Witness ==
    \E i \in DOMAIN errors, s \in DOMAIN subscribers :
        /\ errors[i].message = 1
        /\ 1 \in Range(subscribers[s].received)
        /\ 2 \in Range(subscribers[s].received)
        /\ Len(sent) = 2
        /\ \E k \in DOMAIN sent : sent[k] = [adapterId |-> errors[i].adapterId, id |-> 2]
        /\ \E k \in DOMAIN sent : sent[k].adapterId # errors[i].adapterId

\* C23: when connect() rejects, registerAdapter still returns the id, leaves
\* the registry as it is (with the adapter in it, unless it was unregistered
\* meanwhile), subscribes to the inbound stream, and one record with the id
\* and the reason, without channel name and message, goes to the error
\* stream.
C23_ConnectFailureIsReported ==
    [][(IsSettled("connect") /\ settled'.rejected) =>
           LET a == settled'.adapterId
           IN  /\ adapterInfo'[a].registered
               /\ adapters' = adapters
               /\ ~adapterInfo[a].unregistered => a \in adapters'
               /\ a \in adapterSubscriptions'
               /\ errors' = Append(errors, Owed)
               /\ Owed.channelName = "" /\ Owed.message = 0]_vars

\* connect() of an adapter rejected: the adapter is registered and an
\* observer of the error stream holds the record
C23_Witness ==
    /\ settled.promise = "connect"
    /\ settled.rejected
    /\ settled.adapterId \in adapters
    /\ adapterInfo[settled.adapterId].registered
    /\ \E o \in DOMAIN errorObservers :
           IAdapterError(settled.adapterId, "", 0, settled.error)
               \in Range(errorObservers[o].received)

\* C24: when disconnect() rejects, unregisterAdapter still returns, one
\* record goes to the error stream, and the adapter has left the registry
\* and the forwarding subscriptions.
C24_DisconnectFailureIsReported ==
    [][(IsSettled("disconnect") /\ settled'.rejected) =>
           LET a == settled'.adapterId
           IN  /\ adapterInfo'[a].unregistered
               /\ a \notin adapters'
               /\ a \notin adapterSubscriptions'
               /\ errors' = Append(errors, Owed)]_vars

\* disconnect() of an adapter rejected whose inbound stream was forwarded:
\* the adapter is in neither record and an observer holds the error record
C24_Witness ==
    /\ settled.promise = "disconnect"
    /\ settled.rejected
    /\ adapterInfo[settled.adapterId].streams = 1
    /\ settled.adapterId \notin adapters
    /\ settled.adapterId \notin adapterSubscriptions
    /\ \E o \in DOMAIN errorObservers :
           IAdapterError(settled.adapterId, "", 0, settled.error)
               \in Range(errorObservers[o].received)

\* C25: an observer of the error stream has received exactly the records
\* handed to the stream since it subscribed, each once and in order: every
\* observer of the moment gets a record, a later one gets none of the
\* earlier records.
C25_ErrorsAreBroadcastNotKept ==
    \A o \in DOMAIN errorObservers :
        errorObservers[o].received =
            SubSeq(errors, errorObservers[o].at + 1, Len(errors))

\* two errors and two observers: one subscribed before the first error and
\* has both, the other subscribed between them and has the second only
C25_Witness ==
    /\ Len(errors) = 2
    /\ Len(errorObservers) = 2
    /\ errorObservers[1].at = 0
    /\ errorObservers[2].at = 1
    /\ errorObservers[1].received = errors
    /\ errorObservers[2].received = <<errors[2]>>

\* ------------------------------------------------------- later flat claims
\* the step is the subscribe of a stream: an observer was added
IsSubscribe == Len(subscribers') = Len(subscribers) + 1

\* C31: the channel model of a stream is looked up when the stream is
\* subscribed to, whenever get was called: the observer is attached to the
\* channel model the name has at that moment (a new one without config when it
\* has none) and is handed the messages that model has cached, and from then on
\* every message published on the name, once.
C31_ResolvedWhenSubscribed ==
    [][/\ \A c \in Channels :
              (IsSubscribe /\ subscribers'[Len(subscribers')].channelName = c) =>
                  LET s == Len(subscribers')
                      m == channelModels'[channelLookup'[c]]
                  IN  /\ channelLookup'[c] # 0
                      /\ subscribers'[s].observable = channelLookup'[c]
                      /\ channelLookup[c] # 0 => channelLookup'[c] = channelLookup[c]
                      /\ subscribers'[s].received = ReplayOnAttach(c)
                      /\ ReplayOnAttach(c)' = ReplayOnAttach(c)
                      /\ (/\ Truthy(m.config.replayCacheSize)
                          /\ m.replaces # 0 => channelModels'[m.replaces].subscription = "none")
                             => subscribers'[s].received =
                                    LastN(MessagesOn(c, m.since, Len(published)),
                                          m.config.replayCacheSize)
       /\ IsPublish =>
              \A g \in DOMAIN streams : \A i \in DOMAIN streams[g].subscribers :
                  published'[Len(published')] = streams[g].channelName
                      => Handed(streams[g].subscribers[i]) = <<Len(published')>>]_vars

\* a stream obtained when its name had no channel model was subscribed to
\* after create with a cache size and a publish: its observer was handed the
\* cached message and then the next one
C31_Witness ==
    \E g \in DOMAIN streams : \E i \in DOMAIN streams[g].subscribers :
        LET s == streams[g].subscribers[i]
        IN  /\ streams[g].model = 0
            /\ streams[g].at = 0
            /\ Truthy(Model(s).config.replayCacheSize)
            /\ subscribers[s].at = 1
            /\ subscribers[s].received = <<1, 2>>

\* C32: while a name has no channel model, which after the first create on
\* it means that dispose(name) has returned, no channel model that a create
\* call built for the name has its keepalive subscription open.
C32_DisposeReleasesEveryKeepAlive ==
    \A c \in Channels :
        channelLookup[c] = 0
        => \A o \in DOMAIN channelModels :
               channelModels[o].channelName = c
               => /\ channelModels[o].subscription # "open"
                  /\ KeepAlive \notin Range(channelModels[o].observers)

\* C33: no observer has received a message twice, whatever create, subscribe,
\* publish and registerAdapter calls were made, the registration of one
\* adapter object under several ids included.
C33_NoMessageTwice ==
    \A s \in DOMAIN subscribers :
        \A i, j \in DOMAIN subscribers[s].received :
            subscribers[s].received[i] = subscribers[s].received[j] => i = j

\* C34: while no registerAdapter and no unregisterAdapter call is at its
\* await, every id with a forwarding subscription, with a cached raw stream
\* or with a filtered stream of some channel name is in the adapter registry.
C34_AuxiliaryMapsWithinRegistry ==
    adapterCalls = {}
    => /\ adapterSubscriptions \subseteq adapters
       /\ adapterStreams \subseteq adapters
       /\ \A c \in Channels : adapterObservables[c] \subseteq adapters

\* -------------------------------------------------- later scope tree claims
\* instance b and every instance below it in the tree
RECURSIVE Below(_)
Below(b) ==
    {b} \cup UNION {Below(scopes[b].children[i].instance) : i \in DOMAIN scopes[b].children}

\* create(channelName) on instance d builds a channel model, which comes with
\* a handle of its own
BuildsNew(d, channelName) ==
    LET r == createInScope(scopeState, d, channelName, NoConfig)
    IN  /\ ~r.threw
        /\ r.scopes[d].channelLookup[channelName] # scopes[d].channelLookup[channelName]

\* C35: dispose(name) on an instance leaves that instance and every instance
\* below it without a channel model for the name, has unsubscribed the
\* keepalive subscription of each of these models that was caching, and the
\* next create(name) on any of these instances builds a channel model with a
\* handle of its own.
C35_DisposeCascades ==
    [][\A b \in DOMAIN scopes, c \in Channels :
          (scopeDisposed' # scopeDisposed /\ scopeDisposed'.scope = b
              /\ scopeDisposed'.channelName = c)
          => \A d \in Below(b) :
                 /\ ~scopes'[d].channelLookup[c].present
                 /\ isChannelConfiguredWithCachingInScope(scopes[d].channelLookup[c])
                        => d \in scopeDisposed'.unsubscribed
                 /\ BuildsNew(d, c)']_vars

\* dispose on the root of a chain of three instances, whose grandchild had a
\* caching channel model for the name: no instance has a model left
C35_Witness ==
    /\ scopeDisposed.scope = 1
    /\ Len(scopes) = 3
    /\ scopes[2].parent = 1
    /\ scopes[3].parent = 2
    /\ 3 \in scopeDisposed.unsubscribed
    /\ \A d \in DOMAIN scopes : ~scopes[d].channelLookup[scopeDisposed.channelName].present

\* C36: a create call that throws the cache-size conflict leaves the lookup,
\* every channel model (handle, config, replay buffer, keepalive
\* subscription), the observers of the Subject, the handles given out and the
\* subscribers as they were, so that an observer subscribing next is handed
\* what it would have been handed before the call.
C36_ConflictChangesNothing ==
    [][(ret'.op = "create" /\ ret'.threw)
       => /\ UNCHANGED <<channelLookup, channelModels, messagePublisher, handles,
                         subscribers, published>>
          /\ \A c \in Channels : ReplayOnAttach(c)' = ReplayOnAttach(c)
          /\ channelModels'[ret'.existing].subscription = "open"
          /\ KeepAlive \in Range(channelModels'[ret'.existing].observers)]_vars

\* a create call threw on a name whose channel model has a message cached and
\* its keepalive subscription open
C36_Witness ==
    /\ ret.op = "create"
    /\ ret.threw
    /\ channelLookup[ret.channelName] = ret.existing
    /\ channelModels[ret.existing].buffer # <<>>
    /\ ReplayOnAttach(ret.channelName) = channelModels[ret.existing].buffer
    /\ channelModels[ret.existing].subscription = "open"

\* ---------------------------------------------------- later adapter claims
\* C37: a publish made while an unregisterAdapter call for an adapter is at
\* its await (disconnect() has not settled) invokes sendMessage on that
\* adapter no more.
C37_NoSendWhileUnregistering ==
    [][IsPublish =>
          \A a \in DOMAIN adapterInfo :
              [op |-> "unregisterAdapter", adapterId |-> a] \in adapterCalls
              => \A i \in DOMAIN sent' : sent'[i].adapterId # a]_vars

\* C38: a message an adapter's inbound stream emits causes no sendMessage
\* invocation, on the adapter it came from or on any other: the invocations
\* on record stay those of the last publish call.
C38_InboundIsNotSentOut ==
    [][IsEmission => sent' = sent]_vars

\* with two adapters in the registry, a message was published and sent to
\* both, then an inbound message of one of them reached a subscriber: the
\* invocations on record are those of the published message
C38_Witness ==
    /\ Cardinality(adapters) = 2
    /\ inbound.id = 2
    /\ inbound.adapterId \in adapters \cap adapterSubscriptions
    /\ \E s \in DOMAIN subscribers : 2 \in Range(subscribers[s].received)
    /\ Len(sent) = 2
    /\ \A i \in DOMAIN sent : sent[i].id = 1

\* the message the last publish call made on instance d
MessageOn(d) == CHOOSE message \in scopeMessages : message.scope = d

\* C39: publish(data, type) on a channel of an instance hands a message to
\* every observer of the name on every instance below it, and the message
\* made on each of these instances carries the data and the type of the
\* message made on the instance the call was made on.
C39_DescendantsGetDataAndType ==
    [][\A b \in DOMAIN scopes :
          (IsPublishInScope /\ LastPublished.scope = b)
          => \A d \in Below(b) :
                 /\ \A s \in ObserversOf(d, LastPublished.channelName) :
                        scopeSubscribers'[s].received =
                            Append(scopeSubscribers[s].received, Len(scopePublished'))
                 /\ \E message \in scopeMessages' : message.scope = d
                 /\ MessageOn(d)'.data = MessageOn(b)'.data
                 /\ MessageOn(d)'.type = MessageOn(b)'.type]_vars

\* ------------------------------------------------------ later replay claims
\* a channel model built by create with a cache size on a name whose model was
\* not caching
UpgradedFromNonCached(u) ==
    /\ channelModels[u].replaces # 0
    /\ channelModels[channelModels[u].replaces].subscription = "none"
    /\ ~channelModels[channelModels[u].replaces].disposed
    /\ Truthy(channelModels[u].config.replayCacheSize)

\* C40: a message published on a name while its channel model was not caching
\* is never replayed.  After create(name, {replayCacheSize: N}) on such a name,
\* an observer that subscribes later receives no message published before that
\* create, and what it is handed as it subscribes is at most N messages.
C40_NoReplayFromBeforeUpgrade ==
    \A u \in DOMAIN channelModels, s \in DOMAIN subscribers :
        (/\ UpgradedFromNonCached(u)
         /\ subscribers[s].channelName = channelModels[u].channelName
         /\ subscribers[s].observable >= u)
        => /\ \A i \in DOMAIN subscribers[s].received :
                  subscribers[s].received[i] > channelModels[u].since
           /\ subscribers[s].observable = u
                  => Len(SelectSeq(subscribers[s].received,
                                   LAMBDA i : i <= subscribers[s].at))
                         <= channelModels[u].config.replayCacheSize

\* a message was published on a name without a cache, the name was given a
\* cache, a second message was published, and an observer that subscribed then
\* was handed the second message only
C40_Witness ==
    \E u \in DOMAIN channelModels, s \in DOMAIN subscribers :
        /\ UpgradedFromNonCached(u)
        /\ subscribers[s].observable = u
        /\ MessagesOn(channelModels[u].channelName, 0, channelModels[u].since) # <<>>
        /\ subscribers[s].at > channelModels[u].since
        /\ subscribers[s].received # <<>>
        /\ \A i \in DOMAIN subscribers[s].received :
               subscribers[s].received[i] > channelModels[u].since

====
